---- MODULE Spec2Model ----
(***************************************************************************)
(* Control-plane store of solvin: four SQLite tables (model_providers,     *)
(* models, agent_roles, tasks), their data-access modules, the HTTP        *)
(* handlers in front of them and the template export / import routine.     *)
(***************************************************************************)
EXTENDS Integers, Sequences, FiniteSets, TLC

VARIABLES providers, models, agents, tasks, seq, files, imp, resp, calls, editor, parked, setters, schema, slice

vars == <<providers, models, agents, tasks, seq, files, imp, resp, calls, editor, parked, setters, schema, slice>>

\* the state outside the API handlers and the import
others == <<editor, parked, setters, schema, slice>>

(***************************************************************************)
(* Bounds of the model.                                                    *)
(***************************************************************************)
\* largest rowid a table hands out (AUTOINCREMENT counters are unbounded)
MaxId == 3
\* rows the edit requests insert, all tables together, before imports take over
MaxEdits == 3
\* requests the model sends on to an upstream service
MaxCalls == 2
\* requests of one thunk of the templates slice in flight at once
MaxPending == 2

(***************************************************************************)
(* JavaScript / SQL values.                                                *)
(***************************************************************************)
\* a string-typed argument that is undefined
Undef == "<undefined>"
\* SQL NULL / JS null in a string-typed position
Null == "<null>"
\* an id-typed argument or column that is undefined / null
NoId == 0
\* supports_reasoning argument that is undefined
SrUndef == -1

\* truthiness of a string-typed JS value
Truthy(s) == s \notin {Undef, Null, ""}

\* JS  x || d  on string-typed values
OrElse(s, d) == IF Truthy(s) THEN s ELSE d

\* strings that String.prototype.trim() maps to ''
WhitespaceOnly == {"", " "}

\* a JS value in the allowed_tools position: an array of strings or not an array
Arr(items) == [isArray |-> TRUE, items |-> items]
NotArray == [isArray |-> FALSE, items |-> <<>>]

DEFAULT_TOOL == "set_work_completed"

\* does the array contain the element (Array.prototype.includes)
Includes(s, x) == \E i \in 1..Len(s) : s[i] = x

ensureDefaultToolNoPush(tools) ==
  IF tools.isArray THEN tools.items ELSE <<>>

ensureDefaultTool(tools) ==
  LET arr == IF tools.isArray THEN tools.items ELSE <<>>
  IN  IF ~Includes(arr, DEFAULT_TOOL) THEN Append(arr, DEFAULT_TOOL) ELSE arr

(***************************************************************************)
(* JSON text of a list of strings, as a sequence of tokens.                *)
(***************************************************************************)
Tok(t, v) == [t |-> t, v |-> v]

RECURSIVE JoinItems(_)
JoinItems(items) ==
  IF Len(items) = 0 THEN <<>>
  ELSE IF Len(items) = 1 THEN <<Tok("str", items[1])>>
  ELSE <<Tok("str", items[1]), Tok(",", "")>> \o JoinItems(Tail(items))

JSONstringify(items) == <<Tok("[", "")>> \o JoinItems(items) \o <<Tok("]", "")>>

\* is the token sequence the text of a JSON array of strings
JSONisArray(text) ==
  /\ Len(text) >= 2
  /\ text[1].t = "[" /\ text[Len(text)].t = "]"
  /\ LET inner == SubSeq(text, 2, Len(text) - 1)
     IN  /\ (Len(inner) = 0 \/ Len(inner) % 2 = 1)
         /\ \A i \in 1..Len(inner) :
              inner[i].t = (IF i % 2 = 1 THEN "str" ELSE ",")

\* JSON.parse of such a text: the strings at the odd inner positions
JSONparse(text) ==
  LET inner == SubSeq(text, 2, Len(text) - 1)
  IN  [k \in 1..((Len(inner) + 1) \div 2) |-> inner[2 * k - 1].v]

\* pages/api/agent-roles.js parseTools: [] on a parse failure or a non-array
parseTools(text) == IF JSONisArray(text) THEN Arr(JSONparse(text)) ELSE Arr(<<>>)

(***************************************************************************)
(* ORDER BY on text columns: binary collation, NULL first.                 *)
(***************************************************************************)
StrOrder == <<Null, "", " ", "A", "B", "azure", "gpt-4", "o1", "openai">>

Rank(s) == CHOOSE i \in 1..Len(StrOrder) : StrOrder[i] = s

\* the rows of S as a sequence, ascending in the integer key k[row]
RECURSIVE SortRows(_, _)
SortRows(S, k) ==
  IF S = {} THEN <<>>
  ELSE LET m == CHOOSE x \in S : \A y \in S \ {x} : k[x] < k[y]
       IN  <<m>> \o SortRows(S \ {m}, k)

\* ORDER BY id
ById(S) == SortRows(S, [r \in S |-> r.id])

(***************************************************************************)
(* Data-access modules.  Every operation is a function of the table (a set *)
(* of rows) and of the table's AUTOINCREMENT counter n; its result says    *)
(* whether the statement raised, and gives the table and counter after it. *)
(***************************************************************************)
Ok(rows, n) == [err |-> FALSE, rows |-> rows, n |-> n, message |-> ""]

\* the message of the error the SQLite driver raises on a violated constraint
Constraint == "SQLITE_CONSTRAINT"
Raise(rows, n) == [err |-> TRUE, rows |-> rows, n |-> n, message |-> Constraint]

\* lib/model_provider_manager.js
ProviderRow(id, provider_name, display_name, extra_info) ==
  [id |-> id, provider_name |-> provider_name,
   display_name |-> display_name, extra_info |-> extra_info]

\* a display name taken as given unless it is omitted
safeDisplayNameAsGiven(display_name, provider_name) ==
  IF display_name = Undef THEN provider_name ELSE display_name

safeDisplayName(display_name, provider_name) ==
  IF Truthy(display_name) /\ display_name \notin WhitespaceOnly
  THEN display_name ELSE provider_name

\* the upsert on a table whose id is a plain rowid: one more than the largest stored
createOrUpdateProviderRowid(P, n, id, provider_name, display_name, extra_info) ==
  LET safe  == safeDisplayName(display_name, provider_name)
      extra == OrElse(extra_info, "")
  IN  IF id # NoId
      THEN \* UPDATE ... WHERE id = ?
           IF \E r \in P : r.id = id
           THEN IF \/ provider_name \in {Undef, Null}
                   \/ \E r \in P : r.id # id /\ r.provider_name = provider_name
                THEN Raise(P, n)
                ELSE Ok({r \in P : r.id # id}
                          \cup {ProviderRow(id, provider_name, safe, extra)}, n)
           ELSE Ok(P, n)
      ELSE \* INSERT ... ON CONFLICT(provider_name) DO UPDATE
           IF provider_name \in {Undef, Null}
           THEN Raise(P, n)
           ELSE IF \E r \in P : r.provider_name = provider_name
           THEN Ok({IF r.provider_name = provider_name
                    THEN ProviderRow(r.id, r.provider_name, safe, extra)
                    ELSE r : r \in P}, n)
           ELSE LET top == IF P = {} THEN 0 ELSE CHOOSE i \in {r.id : r \in P} : \A r \in P : r.id <= i
                IN  Ok(P \cup {ProviderRow(top + 1, provider_name, safe, extra)}, top + 1)

createOrUpdateProvider(P, n, id, provider_name, display_name, extra_info) ==
  LET safe  == safeDisplayName(display_name, provider_name)
      extra == OrElse(extra_info, "")
  IN  IF id # NoId
      THEN \* UPDATE ... WHERE id = ?
           IF \E r \in P : r.id = id
           THEN IF \/ provider_name \in {Undef, Null}
                   \/ \E r \in P : r.id # id /\ r.provider_name = provider_name
                THEN Raise(P, n)
                ELSE Ok({r \in P : r.id # id}
                          \cup {ProviderRow(id, provider_name, safe, extra)}, n)
           ELSE Ok(P, n)
      ELSE \* INSERT ... ON CONFLICT(provider_name) DO UPDATE
           IF provider_name \in {Undef, Null}
           THEN Raise(P, n)
           ELSE IF \E r \in P : r.provider_name = provider_name
           THEN Ok({IF r.provider_name = provider_name
                    THEN ProviderRow(r.id, r.provider_name, safe, extra)
                    ELSE r : r \in P}, n)
           ELSE Ok(P \cup {ProviderRow(n + 1, provider_name, safe, extra)}, n + 1)

deleteProvider(P, id) == {r \in P : r.id # id}

\* SELECT * FROM model_providers ORDER BY display_name, provider_name
listProviders(P) ==
  SortRows(P, [r \in P |-> Rank(r.display_name) * 100 + Rank(r.provider_name)])

\* lib/model_manager.js
ModelRow(id, provider_id, model_name, display_name, extra_info, sr) ==
  [id |-> id, provider_id |-> provider_id, model_name |-> model_name,
   display_name |-> display_name, extra_info |-> extra_info,
   supports_reasoning |-> sr]

createOrUpdateModel(M, n, id, provider_id, model_name, display_name0, extra_info0, supports_reasoning0) ==
  LET display_name == IF display_name0 = Undef THEN model_name ELSE display_name0
      extra_info   == IF extra_info0 = Undef THEN "" ELSE extra_info0
      supports     == IF supports_reasoning0 = SrUndef THEN 1 ELSE supports_reasoning0
      sr           == IF supports # 0 THEN 1 ELSE 0
      notNull      == \/ provider_id = NoId
                      \/ model_name \in {Undef, Null}
                      \/ display_name \in {Undef, Null}
  IN  IF id # NoId
      THEN \* UPDATE ... WHERE id = ?
           IF \E r \in M : r.id = id
           THEN IF \/ notNull
                   \/ \E r \in M : /\ r.id # id
                                   /\ r.provider_id = provider_id
                                   /\ r.model_name = model_name
                THEN Raise(M, n)
                ELSE Ok({r \in M : r.id # id}
                          \cup {ModelRow(id, provider_id, model_name,
                                         display_name, extra_info, sr)}, n)
           ELSE Ok(M, n)
      ELSE \* INSERT ... ON CONFLICT(provider_id, model_name) DO UPDATE
           IF notNull
           THEN Raise(M, n)
           ELSE IF \E r \in M : r.provider_id = provider_id /\ r.model_name = model_name
           THEN Ok({IF r.provider_id = provider_id /\ r.model_name = model_name
                    THEN ModelRow(r.id, r.provider_id, r.model_name,
                                  display_name, extra_info, sr)
                    ELSE r : r \in M}, n)
           ELSE Ok(M \cup {ModelRow(n + 1, provider_id, model_name,
                                    display_name, extra_info, sr)}, n + 1)

deleteModel(M, id) == {r \in M : r.id # id}

\* SELECT * FROM models ORDER BY id
listModels(M) == ById(M)

\* the provider row a model's provider_id points at, as the LEFT JOIN sees it
JoinProvider(P, provider_id) ==
  IF \E p \in P : p.id = provider_id
  THEN CHOOSE p \in P : p.id = provider_id
  ELSE ProviderRow(NoId, Null, Null, Null)

\* models LEFT JOIN model_providers ORDER BY provider_display_name, model_name
listModelsWithProviderInfo(M, P) ==
  LET joined == {[id |-> m.id, provider_id |-> m.provider_id,
                  model_name |-> m.model_name, display_name |-> m.display_name,
                  extra_info |-> m.extra_info,
                  supports_reasoning |-> m.supports_reasoning,
                  provider_name |-> JoinProvider(P, m.provider_id).provider_name,
                  provider_display_name |->
                      JoinProvider(P, m.provider_id).display_name] : m \in M}
  IN  SortRows(joined, [r \in joined |->
        Rank(r.provider_display_name) * 10000 + Rank(r.model_name) * 100 + r.id])

\* lib/agent_manager.js
AgentArgs(agent_role, agent_description, allowed_tools, developer_prompt, user_prompt, model_id, reasoning_level, tool_choice) ==
  [agent_role |-> agent_role, agent_description |-> agent_description,
   allowed_tools |-> allowed_tools,
   default_developer_prompt |-> developer_prompt,
   default_user_prompt |-> user_prompt, model_id |-> model_id,
   reasoning_level |-> reasoning_level, tool_choice |-> tool_choice]

\* the column values setAgentDetails binds, for the row with the given id
AgentRow(id, a) ==
  [id |-> id, agent_role |-> a.agent_role,
   agent_description |-> OrElse(a.agent_description, ""),
   allowed_tools |-> JSONstringify(ensureDefaultTool(a.allowed_tools)),
   default_developer_prompt |-> OrElse(a.default_developer_prompt, ""),
   default_user_prompt |-> OrElse(a.default_user_prompt, ""),
   model_id |-> a.model_id,
   reasoning_level |-> OrElse(a.reasoning_level, "medium"),
   tool_choice |-> OrElse(a.tool_choice, "auto")]

setAgentDetails(A, n, a) ==
  IF ~Truthy(a.agent_role)
  THEN [Raise(A, n) EXCEPT !.message = "agent_role is required"]
  ELSE IF \E r \in A : r.agent_role = a.agent_role
  THEN Ok({IF r.agent_role = a.agent_role THEN AgentRow(r.id, a) ELSE r : r \in A}, n)
  ELSE Ok(A \cup {AgentRow(n + 1, a)}, n + 1)

\* UPDATE agent_roles SET allowed_tools = ? WHERE agent_role = ?
setAllowedTools(A, agent_role, tools) ==
  {IF r.agent_role = agent_role
   THEN [r EXCEPT !.allowed_tools = JSONstringify(ensureDefaultTool(tools))]
   ELSE r : r \in A}

deleteAgentType(A, agent_role) == {r \in A : r.agent_role # agent_role}

\* the model row an agent's model_id points at, as the LEFT JOIN sees it
JoinModel(M, model_id) ==
  IF \E m \in M : m.id = model_id
  THEN CHOOSE m \in M : m.id = model_id
  ELSE ModelRow(NoId, NoId, Null, Null, Null, 0)

\* SELECT * FROM agent_roles ORDER BY id, with the two LEFT JOINs of withModelInfo
listAgentTypes(A, M, P) ==
  LET joined == {[row |-> a,
                  id |-> a.id,
                  model_name |-> JoinModel(M, a.model_id).model_name,
                  provider_name |->
                    JoinProvider(P, JoinModel(M, a.model_id).provider_id).provider_name]
                 : a \in A}
  IN  ById(joined)

\* lib/tasks.js
TaskRow(id, task_name, task_prompt) ==
  [id |-> id, task_name |-> task_name, task_prompt |-> task_prompt]

\* INSERT INTO tasks (task_name, task_prompt) VALUES (?, ?)
createTask(T, n, task_name, task_prompt0) ==
  LET task_prompt == IF task_prompt0 = Undef THEN "" ELSE task_prompt0
  IN  IF \/ task_name \in {Undef, Null}
         \/ \E r \in T : r.task_name = task_name
      THEN Raise(T, n)
      ELSE Ok(T \cup {TaskRow(n + 1, task_name, task_prompt)}, n + 1)

\* UPDATE tasks SET task_name = ?, task_prompt = ? WHERE id = ?
updateTask(T, n, id, task_name, task_prompt0) ==
  LET task_prompt == IF task_prompt0 = Undef THEN "" ELSE task_prompt0
  IN  IF \E r \in T : r.id = id
      THEN IF \/ task_name \in {Undef, Null}
              \/ \E r \in T : r.id # id /\ r.task_name = task_name
           THEN Raise(T, n)
           ELSE Ok({r \in T : r.id # id} \cup {TaskRow(id, task_name, task_prompt)}, n)
      ELSE Ok(T, n)

deleteTask(T, id) == {r \in T : r.id # id}

\* SELECT * FROM tasks ORDER BY id
getAllTasks(T) == ById(T)

(***************************************************************************)
(* YAML files (lib/yaml_store.js).  A file is a list of mappings; a        *)
(* mapping is its list of <<key, value>> pairs, which yaml.dump writes in  *)
(* sorted key order.                                                       *)
(***************************************************************************)
\* yaml.dump of one object: the pairs of its keys, keys given in sorted order
YamlDump(obj, sortedKeys) ==
  [i \in 1..Len(sortedKeys) |-> <<sortedKeys[i], obj[sortedKeys[i]]>>]

YamlHas(m, key) == \E i \in 1..Len(m) : m[i][1] = key

\* the property of the loaded object; undef when the mapping has no such key
\* (the last pair wins when a key is repeated)
YamlGet(m, key, undef) ==
  IF YamlHas(m, key)
  THEN m[CHOOSE i \in 1..Len(m) :
           /\ m[i][1] = key
           /\ \A j \in (i + 1)..Len(m) : m[j][1] # key][2]
  ELSE undef

ProviderKeys == <<"display_name", "extra_info", "provider_name">>
ModelKeys == <<"display_name", "extra_info", "model_name", "provider_name",
               "supports_reasoning">>
AgentKeys == <<"agent_description", "agent_role", "allowed_tools",
               "default_developer_prompt", "default_user_prompt", "model_name",
               "provider_name", "reasoning_level", "tool_choice">>
TaskKeys == <<"task_name", "task_prompt">>

\* a template folder with its four files
Folder(ps, ms, as, ts) ==
  [exists |-> TRUE, providers |-> ps, models |-> ms, agents |-> as, tasks |-> ts]
NoFolder ==
  [exists |-> FALSE, providers |-> <<>>, models |-> <<>>, agents |-> <<>>,
   tasks |-> <<>>]

\* exportTemplate: the four projections, in the order of the four listings
ExportProviders(P) ==
  LET rows == listProviders(P)
  IN  [i \in 1..Len(rows) |->
        YamlDump([provider_name |-> rows[i].provider_name,
                  display_name |-> rows[i].display_name,
                  extra_info |-> rows[i].extra_info], ProviderKeys)]

ExportModels(M, P) ==
  LET rows == listModelsWithProviderInfo(M, P)
  IN  [i \in 1..Len(rows) |->
        YamlDump([provider_name |-> rows[i].provider_name,
                  model_name |-> rows[i].model_name,
                  display_name |-> rows[i].display_name,
                  extra_info |-> rows[i].extra_info,
                  supports_reasoning |->
                    (IF rows[i].supports_reasoning # 0 THEN 1 ELSE 0)], ModelKeys)]

ExportAgents(A, M, P) ==
  LET rows == listAgentTypes(A, M, P)
  IN  [i \in 1..Len(rows) |->
        YamlDump([agent_role |-> rows[i].row.agent_role,
                  agent_description |-> rows[i].row.agent_description,
                  allowed_tools |->
                    (IF Len(rows[i].row.allowed_tools) > 0
                     THEN Arr(JSONparse(rows[i].row.allowed_tools))
                     ELSE Arr(<<>>)),
                  default_developer_prompt |-> rows[i].row.default_developer_prompt,
                  default_user_prompt |-> rows[i].row.default_user_prompt,
                  reasoning_level |-> rows[i].row.reasoning_level,
                  tool_choice |-> rows[i].row.tool_choice,
                  provider_name |-> rows[i].provider_name,
                  model_name |-> rows[i].model_name], AgentKeys)]

ExportTasks(T) ==
  LET rows == getAllTasks(T)
  IN  [i \in 1..Len(rows) |->
        YamlDump([task_name |-> rows[i].task_name,
                  task_prompt |-> rows[i].task_prompt], TaskKeys)]

exportTemplate(P, M, A, T) ==
  Folder(ExportProviders(P), ExportModels(M, P), ExportAgents(A, M, P),
         ExportTasks(T))

(***************************************************************************)
(* Template folders written by hand (the program only reads them).         *)
(***************************************************************************)
YProvider(provider_name, display_name) ==
  <<<<"provider_name", provider_name>>, <<"display_name", display_name>>>>

YModel(provider_name, model_name, supports_reasoning) ==
  <<<<"provider_name", provider_name>>, <<"model_name", model_name>>,
    <<"supports_reasoning", supports_reasoning>>>>

YAgent(agent_role, provider_name, model_name, description) ==
  <<<<"agent_role", agent_role>>, <<"provider_name", provider_name>>,
    <<"model_name", model_name>>, <<"agent_description", description>>>>

YTask(task_name, task_prompt) ==
  <<<<"task_name", task_name>>, <<"task_prompt", task_prompt>>>>

HandTemplates ==
  [good |->
     Folder(<<YProvider("openai", "A")>>,
            <<YModel("openai", "gpt-4", 0), YModel("openai", "o1", 1)>>,
            <<YAgent("coder", "openai", "gpt-4", "d1")>>,
            <<YTask("t1", "p1")>>),
   bad_model |->
     Folder(<<YProvider("openai", "A")>>,
            <<YModel("azure", "gpt-4", 1), YModel("openai", "gpt-4", 1)>>,
            <<YAgent("coder", "openai", "gpt-4", "d1")>>,
            <<YTask("t1", "p1")>>),
   bad_agent |->
     Folder(<<YProvider("openai", "A")>>,
            <<YModel("openai", "gpt-4", 1)>>,
            <<YAgent("coder", "azure", "gpt-4", "d1"),
              YAgent("reviewer", "openai", "gpt-4", "d1")>>,
            <<YTask("t1", "p1")>>),
   dup |->
     Folder(<<YProvider("openai", "A"), YProvider("openai", "B")>>,
            <<YModel("openai", "gpt-4", 1), YModel("openai", "gpt-4", 0)>>,
            <<YAgent("coder", "openai", "gpt-4", "d1"),
              YAgent("coder", Null, Null, "d2")>>,
            <<YTask("t1", "p1")>>),
   dup_tasks |->
     Folder(<<>>, <<>>, <<>>, <<YTask("t1", "p1"), YTask("t1", "p2")>>),
   orphan_model |->
     Folder(<<>>, <<YModel("azure", "gpt-4", 1)>>, <<>>, <<>>),
   missing |-> NoFolder]

TemplateNames == DOMAIN HandTemplates \cup {"default"}

\* the folder templates/<name>; "default" is the one the model exports to
Template(name) == IF name = "default" THEN files ELSE HandTemplates[name]

\* loadYAML that reads the folder "good" when the file does not exist
loadYAMLFallback(name, file) ==
  IF Template(name).exists THEN Template(name)[file] ELSE Template("good")[file]

\* loadYAML: [] when the file does not exist
loadYAML(name, file) ==
  IF Template(name).exists THEN Template(name)[file] ELSE <<>>

(***************************************************************************)
(* State.                                                                  *)
(***************************************************************************)
Tables == {"providers", "models", "agents", "tasks"}

Idle ==
  [pc |-> "idle", name |-> "", todo |-> <<>>, yaml |-> <<>>, i |-> 0,
   provMap |-> <<>>, modelMap |-> <<>>, err |-> "", at |-> "",
   pre |-> [t \in Tables |-> {}]]

NoResp == [status |-> 0, headers |-> {}, body |-> <<>>]
Status(code) == [status |-> code, headers |-> {}, body |-> <<>>]

\* a JSON body: the list of its members
Json(key, value) == [key |-> key, value |-> value]

\* res.status(400).json({ error })
BadRequest(text) == [status |-> 400, headers |-> {}, body |-> <<Json("error", text)>>]

\* res.status(500).json({ error }) of a catch block
ServerError(text) == [status |-> 500, headers |-> {}, body |-> <<Json("error", text)>>]

\* useConfig before its first effect: the hook's five states, and the value
\* a save in flight has sent and whether a load is in flight
NoCfg == "<null>"
NotSent == "<none>"
Mounted ==
  [cfg |-> NoCfg, orig |-> NoCfg, loading |-> FALSE, saving |-> FALSE,
   error |-> <<>>, sent |-> NotSent, fetching |-> FALSE]

(***************************************************************************)
(* The schema of the shared database file: for each table the columns it   *)
(* was created with or altered to (none: no such table), and the modules   *)
(* whose load-time initialisation has run.                                 *)
(***************************************************************************)
Col(name, decl) == [name |-> name, decl |-> decl]
SchemaTables == {"model_providers", "models", "agent_roles", "tasks"}
Modules == {"agent_manager", "model_manager", "model_provider_manager", "tasks"}

ProviderCols ==
  {Col("id", "INTEGER PRIMARY KEY AUTOINCREMENT"), Col("provider_name", "TEXT UNIQUE NOT NULL"),
   Col("display_name", "TEXT NOT NULL"), Col("extra_info", "TEXT DEFAULT ''")}

\* the models table as lib/agent_manager.js creates it
AgentManagerModelCols ==
  {Col("id", "INTEGER PRIMARY KEY AUTOINCREMENT"), Col("provider_id", "INTEGER NOT NULL"),
   Col("model_name", "TEXT NOT NULL"), Col("display_name", "TEXT NOT NULL"),
   Col("extra_info", "TEXT DEFAULT ''")}

\* the models table as lib/model_manager.js creates it
ModelManagerModelCols ==
  {Col("id", "INTEGER PRIMARY KEY AUTOINCREMENT"), Col("provider_id", "INTEGER NOT NULL"),
   Col("model_name", "TEXT NOT NULL"), Col("display_name", "TEXT NOT NULL DEFAULT ''"),
   Col("extra_info", "TEXT DEFAULT ''"), Col("supports_reasoning", "INTEGER NOT NULL DEFAULT 1")}

AgentKeyCols ==
  {Col("id", "INTEGER PRIMARY KEY AUTOINCREMENT"), Col("agent_role", "TEXT UNIQUE NOT NULL")}

columnFixes ==
  {Col("agent_description", "TEXT DEFAULT ''"), Col("allowed_tools", "TEXT"),
   Col("default_developer_prompt", "TEXT DEFAULT ''"), Col("default_user_prompt", "TEXT DEFAULT ''"),
   Col("model_id", "INTEGER"), Col("reasoning_level", "TEXT DEFAULT 'medium'"),
   Col("tool_choice", "TEXT DEFAULT 'auto'")}

AgentCols == AgentKeyCols \cup columnFixes

TaskCols ==
  {Col("id", "INTEGER PRIMARY KEY AUTOINCREMENT"), Col("task_name", "TEXT UNIQUE NOT NULL"),
   Col("task_prompt", "TEXT DEFAULT ''")}

ColumnNames(cols) == {c.name : c \in cols}

\* no database file yet
NoDatabase == [exists |-> FALSE, cols |-> [t \in SchemaTables |-> {}], loaded |-> {}]

\* the schema after lib/model_manager.js loaded first and the other modules after it
Installed ==
  [exists |-> TRUE, loaded |-> Modules,
   cols |-> [t \in SchemaTables |->
               CASE t = "model_providers" -> ProviderCols
                 [] t = "models" -> ModelManagerModelCols
                 [] t = "agent_roles" -> AgentCols
                 [] t = "tasks" -> TaskCols]]

\* CREATE TABLE IF NOT EXISTS
CreateIfNotExists(cols, t, declared) ==
  IF cols[t] = {} THEN [cols EXCEPT ![t] = declared] ELSE cols

\* the columns createOrUpdateModel's INSERT and UPDATE name
ModelWriteColumns ==
  {"provider_id", "model_name", "display_name", "extra_info", "supports_reasoning"}

\* store/templatesSlice.js: the slice's first state, and the requests of each
\* thunk that are in flight
initialState ==
  [list |-> <<>>, status |-> "idle", error |-> Null, lastAction |-> Null,
   inflight |-> [thunk \in {"fetchTemplates", "exportTemplate", "importTemplate"} |-> 0]]

\* the callers of setAgentDetails that run at once, and a call not yet made
Callers == {1, 2}
NotCalled ==
  [pc |-> "idle", existing |-> NoId, error |-> "",
   a |-> AgentArgs(Undef, Undef, NotArray, Undef, Undef, NoId, Undef, Undef)]

Init ==
  /\ providers = {}
  /\ models = {}
  /\ agents = {}
  /\ tasks = {}
  /\ seq = [t \in Tables |-> 0]
  /\ files = NoFolder
  /\ imp = Idle
  /\ resp = NoResp
  /\ calls = 0
  /\ editor = Mounted
  /\ parked = Idle
  /\ setters = [c \in Callers |-> NotCalled]
  /\ schema = Installed
  /\ slice = initialState

(***************************************************************************)
(* HTTP handlers of the four entities.  Requests are served one at a time  *)
(* here: a handler runs while no import is in flight.                      *)
(***************************************************************************)
NoImport == imp.pc = "idle"

\* a provider upsert that hands the body to the store without looking at it
PostProviderUnchecked(id, provider_name, extra_info) ==
  /\ NoImport
  /\ LET r == createOrUpdateProvider(providers, seq.providers, id,
                                     provider_name, Undef, extra_info)
     IN  /\ r.n <= MaxId
         /\ providers' = r.rows
         /\ seq' = [seq EXCEPT !.providers = r.n]
         /\ resp' = IF r.err THEN ServerError("Error updating model provider.")
                    ELSE Status(200)
  /\ UNCHANGED <<models, agents, tasks, files, imp>>
  /\ UNCHANGED <<calls, others>>

\* pages/api/model-providers.js, POST and PUT
PostProvider(id, provider_name, extra_info) ==
  /\ NoImport
  /\ IF ~Truthy(provider_name)
     THEN /\ resp' = BadRequest("provider_name is required.")
          /\ UNCHANGED <<providers, seq>>
     ELSE LET r == createOrUpdateProvider(providers, seq.providers, id,
                                          provider_name, Undef, extra_info)
          IN  /\ r.n <= MaxId
              /\ providers' = r.rows
              /\ seq' = [seq EXCEPT !.providers = r.n]
              /\ resp' = IF r.err THEN ServerError("Error updating model provider.")
                         ELSE Status(200)
  /\ UNCHANGED <<models, agents, tasks, files, imp>>
  /\ UNCHANGED <<calls, others>>

\* a provider deletion that takes the provider's models along
DeleteProviderCascade(id) ==
  /\ NoImport
  /\ IF id = NoId
     THEN /\ resp' = BadRequest("Provider id is required.")
          /\ UNCHANGED <<providers, models>>
     ELSE /\ providers' = deleteProvider(providers, id)
          /\ models' = {m \in models : m.provider_id # id}
          /\ resp' = Status(200)
  /\ UNCHANGED <<agents, tasks, seq, files, imp>>
  /\ UNCHANGED <<calls, others>>

\* pages/api/model-providers.js, DELETE
DeleteProviderReq(id) ==
  /\ NoImport
  /\ IF id = NoId
     THEN /\ resp' = BadRequest("Provider id is required.")
          /\ UNCHANGED providers
     ELSE /\ providers' = deleteProvider(providers, id)
          /\ resp' = Status(200)
  /\ UNCHANGED <<models, agents, tasks, seq, files, imp>>
  /\ UNCHANGED <<calls, others>>

\* pages/api/models.js, POST and PUT
PostModel(id, provider_id, model_name, extra_info, supports_reasoning) ==
  /\ NoImport
  /\ IF provider_id = NoId \/ ~Truthy(model_name)
     THEN /\ resp' = BadRequest("provider_id and model_name are required.")
          /\ UNCHANGED <<models, seq>>
     ELSE LET r == createOrUpdateModel(models, seq.models, id, provider_id,
                                       model_name, Undef, extra_info,
                                       supports_reasoning)
          IN  /\ r.n <= MaxId
              /\ models' = r.rows
              /\ seq' = [seq EXCEPT !.models = r.n]
              /\ resp' = IF r.err THEN ServerError("Error updating model.")
                         ELSE Status(200)
  /\ UNCHANGED <<providers, agents, tasks, files, imp>>
  /\ UNCHANGED <<calls, others>>

\* pages/api/models.js, DELETE
DeleteModelReq(id) ==
  /\ NoImport
  /\ IF id = NoId
     THEN /\ resp' = BadRequest("Model id is required for deletion.")
          /\ UNCHANGED models
     ELSE /\ models' = deleteModel(models, id)
          /\ resp' = Status(200)
  /\ UNCHANGED <<providers, agents, tasks, seq, files, imp>>
  /\ UNCHANGED <<calls, others>>

\* pages/api/agent-roles.js, POST and PUT
PostAgentRole(a) ==
  /\ NoImport
  /\ IF ~Truthy(a.agent_role)
     THEN /\ resp' = BadRequest("agent_role is required.")
          /\ UNCHANGED <<agents, seq>>
     ELSE LET finalTools == ensureDefaultTool(a.allowed_tools)
              r == setAgentDetails(agents, seq.agents,
                                   [a EXCEPT !.allowed_tools = Arr(finalTools)])
          IN  /\ r.n <= MaxId
              /\ agents' = r.rows
              /\ seq' = [seq EXCEPT !.agents = r.n]
              /\ resp' = IF r.err THEN ServerError("Error creating/updating agent role.")
                         ELSE Status(200)
  /\ UNCHANGED <<providers, models, tasks, files, imp>>
  /\ UNCHANGED <<calls, others>>

\* pages/api/agent-roles.js, DELETE
DeleteAgentRole(agent_role) ==
  /\ NoImport
  /\ IF ~Truthy(agent_role)
     THEN /\ resp' = BadRequest("agent_role query parameter is required.")
          /\ UNCHANGED agents
     ELSE /\ agents' = deleteAgentType(agents, agent_role)
          /\ resp' = Status(200)
  /\ UNCHANGED <<providers, models, tasks, seq, files, imp>>
  /\ UNCHANGED <<calls, others>>

\* lib/agent_manager.js setAllowedTools, called on its own
SetAllowedTools(agent_role, tools) ==
  /\ NoImport
  /\ agents' = setAllowedTools(agents, agent_role, tools)
  /\ UNCHANGED <<providers, models, tasks, seq, files, imp, resp>>
  /\ UNCHANGED <<calls, others>>

\* a task creation whose catch block hands the caught message to the client
PostTaskExposing(task_name, task_prompt) ==
  /\ NoImport
  /\ IF ~Truthy(task_name)
     THEN /\ resp' = BadRequest("task_name is required.")
          /\ UNCHANGED <<tasks, seq>>
     ELSE LET r == createTask(tasks, seq.tasks, task_name, OrElse(task_prompt, ""))
          IN  /\ r.n <= MaxId
              /\ tasks' = r.rows
              /\ seq' = [seq EXCEPT !.tasks = r.n]
              /\ resp' = IF r.err THEN ServerError(r.message) ELSE Status(201)
  /\ UNCHANGED <<providers, models, agents, files, imp>>
  /\ UNCHANGED <<calls, others>>

\* pages/api/tasks.js, POST
PostTask(task_name, task_prompt) ==
  /\ NoImport
  /\ IF ~Truthy(task_name)
     THEN /\ resp' = BadRequest("task_name is required.")
          /\ UNCHANGED <<tasks, seq>>
     ELSE LET r == createTask(tasks, seq.tasks, task_name, OrElse(task_prompt, ""))
          IN  /\ r.n <= MaxId
              /\ tasks' = r.rows
              /\ seq' = [seq EXCEPT !.tasks = r.n]
              /\ resp' = IF r.err THEN ServerError("Internal server error.")
                         ELSE Status(201)
  /\ UNCHANGED <<providers, models, agents, files, imp>>
  /\ UNCHANGED <<calls, others>>

\* pages/api/tasks.js, PUT
PutTask(id, task_name, task_prompt) ==
  /\ NoImport
  /\ IF id = NoId
     THEN /\ resp' = BadRequest("Task internal id is required for update.")
          /\ UNCHANGED tasks
     ELSE LET r == updateTask(tasks, seq.tasks, id, task_name,
                              OrElse(task_prompt, ""))
          IN  /\ tasks' = r.rows
              /\ resp' = IF r.err THEN ServerError("Internal server error.")
                         ELSE Status(IF \A t \in tasks : t.id # id THEN 404
                                     ELSE 200)
  /\ UNCHANGED <<providers, models, agents, seq, files, imp>>
  /\ UNCHANGED <<calls, others>>

\* pages/api/tasks.js, DELETE
DeleteTaskReq(id) ==
  /\ NoImport
  /\ IF id = NoId
     THEN /\ resp' = BadRequest("Task id is required for deletion.")
          /\ UNCHANGED tasks
     ELSE /\ tasks' = deleteTask(tasks, id)
          /\ resp' = Status(IF \A t \in tasks : t.id # id THEN 404 ELSE 200)
  /\ UNCHANGED <<providers, models, agents, seq, files, imp>>
  /\ UNCHANGED <<calls, others>>

\* pages/api/templates/export.js, POST (to the folder "default")
ExportReq ==
  /\ NoImport
  /\ files' = exportTemplate(providers, models, agents, tasks)
  /\ resp' = Status(200)
  /\ UNCHANGED <<providers, models, agents, tasks, seq, imp>>
  /\ UNCHANGED <<calls, others>>

(***************************************************************************)
(* importTemplate(name, {wipe: true}) behind pages/api/templates/import.js.*)
(* One step per awaited data-access call; the synchronous code between two *)
(* awaits (loadYAML, the map lookups, the throw) belongs to the step of    *)
(* the call that follows or precedes it.                                   *)
(***************************************************************************)
IdsOf(rows) == [i \in 1..Len(rows) |-> rows[i].id]

\* the rowids present in a table
RowIds(S) == {r.id : r \in S}

\* the import can insert every entry of its files without passing MaxId
FitsIds(name) ==
  \A t \in Tables : seq[t] + Len(loadYAML(name, t)) <= MaxId

\* entering the provider loop: file read, loop entered unless the file is empty
EnterProviders(st) ==
  LET y == loadYAML(st.name, "providers")
  IN  [st EXCEPT !.yaml = y, !.i = 1, !.todo = <<>>,
                 !.pc = IF y = <<>> THEN "mapP" ELSE "loadP"]

EnterModels(st) ==
  LET y == loadYAML(st.name, "models")
  IN  [st EXCEPT !.yaml = y, !.i = 1,
                 !.pc = IF y = <<>> THEN "mapM" ELSE "loadM"]

EnterTasks(st) ==
  LET y == loadYAML(st.name, "tasks")
  IN  [st EXCEPT !.yaml = y, !.i = 1,
                 !.pc = IF y = <<>> THEN "done" ELSE "loadT"]

EnterAgents(st) ==
  LET y == loadYAML(st.name, "agents")
  IN  IF y = <<>> THEN EnterTasks(st)
      ELSE [st EXCEPT !.yaml = y, !.i = 1, !.pc = "loadA"]

\* the wipe loop over a listing: next row to delete, or the next listing
WipeLoop(st, rest, delPc, nextPc) ==
  [st EXCEPT !.todo = rest, !.pc = IF rest = <<>> THEN nextPc ELSE delPc]

\* handler entry, up to the result of the first listProviders()
ImportBegin(name) ==
  /\ NoImport
  /\ FitsIds(name)
  /\ imp' = WipeLoop([Idle EXCEPT !.name = name,
                        !.pre = [providers |-> RowIds(providers),
                                 models |-> RowIds(models),
                                 agents |-> RowIds(agents),
                                 tasks |-> RowIds(tasks)]],
                     IdsOf(listProviders(providers)), "delP", "listM")
  /\ resp' = NoResp
  /\ UNCHANGED <<providers, models, agents, tasks, seq, files>>
  /\ UNCHANGED <<calls, others>>

WipeProvider ==
  /\ imp.pc = "delP"
  /\ providers' = deleteProvider(providers, Head(imp.todo))
  /\ imp' = WipeLoop(imp, Tail(imp.todo), "delP", "listM")
  /\ UNCHANGED <<models, agents, tasks, seq, files, resp>>
  /\ UNCHANGED <<calls, others>>

WipeListModels ==
  /\ imp.pc = "listM"
  /\ imp' = WipeLoop(imp, IdsOf(listModelsWithProviderInfo(models, providers)),
                     "delM", "listA")
  /\ UNCHANGED <<providers, models, agents, tasks, seq, files, resp>>
  /\ UNCHANGED <<calls, others>>

WipeModel ==
  /\ imp.pc = "delM"
  /\ models' = deleteModel(models, Head(imp.todo))
  /\ imp' = WipeLoop(imp, Tail(imp.todo), "delM", "listA")
  /\ UNCHANGED <<providers, agents, tasks, seq, files, resp>>
  /\ UNCHANGED <<calls, others>>

WipeListAgents ==
  /\ imp.pc = "listA"
  /\ LET rows == listAgentTypes(agents, models, providers)
     IN  imp' = WipeLoop(imp, [i \in 1..Len(rows) |-> rows[i].row.agent_role],
                         "delA", "listT")
  /\ UNCHANGED <<providers, models, agents, tasks, seq, files, resp>>
  /\ UNCHANGED <<calls, others>>

WipeAgent ==
  /\ imp.pc = "delA"
  /\ agents' = deleteAgentType(agents, Head(imp.todo))
  /\ imp' = WipeLoop(imp, Tail(imp.todo), "delA", "listT")
  /\ UNCHANGED <<providers, models, tasks, seq, files, resp>>
  /\ UNCHANGED <<calls, others>>

\* a wipe that leaves the tasks alone
WipeListTasksSkipped ==
  /\ imp.pc = "listT"
  /\ imp' = EnterProviders(imp)
  /\ UNCHANGED <<providers, models, agents, tasks, seq, files, resp>>
  /\ UNCHANGED <<calls, others>>

WipeListTasks ==
  /\ imp.pc = "listT"
  /\ LET ids == IdsOf(getAllTasks(tasks))
     IN  imp' = IF ids = <<>> THEN EnterProviders(imp)
                ELSE WipeLoop(imp, ids, "delT", "delT")
  /\ UNCHANGED <<providers, models, agents, tasks, seq, files, resp>>
  /\ UNCHANGED <<calls, others>>

WipeTask ==
  /\ imp.pc = "delT"
  /\ tasks' = deleteTask(tasks, Head(imp.todo))
  /\ imp' = IF Tail(imp.todo) = <<>> THEN EnterProviders(imp)
            ELSE WipeLoop(imp, Tail(imp.todo), "delT", "delT")
  /\ UNCHANGED <<providers, models, agents, seq, files, resp>>
  /\ UNCHANGED <<calls, others>>

\* the loop variable after entry i succeeded: the next entry, or what follows
Advance(st, nextPc) ==
  IF st.i < Len(st.yaml) THEN [st EXCEPT !.i = st.i + 1]
  ELSE [st EXCEPT !.pc = nextPc]

\* a throw out of importTemplate: at records the loop it left
Fail(st, err) == [st EXCEPT !.pc = "failed", !.at = st.pc, !.err = err]

LoadProvider ==
  /\ imp.pc = "loadP"
  /\ LET e == imp.yaml[imp.i]
         r == createOrUpdateProvider(providers, seq.providers, NoId,
                                     YamlGet(e, "provider_name", Undef),
                                     YamlGet(e, "display_name", Undef),
                                     YamlGet(e, "extra_info", Undef))
     IN  /\ providers' = r.rows
         /\ seq' = [seq EXCEPT !.providers = r.n]
         /\ imp' = IF r.err THEN Fail(imp, "constraint") ELSE Advance(imp, "mapP")
  /\ UNCHANGED <<models, agents, tasks, files, resp>>
  /\ UNCHANGED <<calls, others>>

\* new Map(rows.map(p => [p.provider_name, p.id])): a later row replaces an
\* earlier one with the same key
provMapOf(rows) ==
  [k \in {rows[i].provider_name : i \in 1..Len(rows)} |->
     rows[CHOOSE i \in 1..Len(rows) :
            /\ rows[i].provider_name = k
            /\ \A j \in (i + 1)..Len(rows) : rows[j].provider_name # k].id]

BuildProvMap ==
  /\ imp.pc = "mapP"
  /\ imp' = EnterModels([imp EXCEPT !.provMap = provMapOf(listProviders(providers))])
  /\ UNCHANGED <<providers, models, agents, tasks, seq, files, resp>>
  /\ UNCHANGED <<calls, others>>

\* the models loop skipping an entry whose provider_name does not resolve
LoadModelSkip ==
  /\ imp.pc = "loadM"
  /\ LET e == imp.yaml[imp.i]
         provider_name == YamlGet(e, "provider_name", Undef)
     IN  IF provider_name \notin DOMAIN imp.provMap
         THEN /\ imp' = Advance(imp, "mapM")
              /\ UNCHANGED <<models, seq>>
         ELSE LET r == createOrUpdateModel(models, seq.models, NoId,
                                           imp.provMap[provider_name],
                                           YamlGet(e, "model_name", Undef),
                                           YamlGet(e, "display_name", Undef),
                                           YamlGet(e, "extra_info", Undef),
                                           YamlGet(e, "supports_reasoning", SrUndef))
              IN  /\ models' = r.rows
                  /\ seq' = [seq EXCEPT !.models = r.n]
                  /\ imp' = IF r.err THEN Fail(imp, "constraint")
                            ELSE Advance(imp, "mapM")
  /\ UNCHANGED <<providers, agents, tasks, files, resp>>
  /\ UNCHANGED <<calls, others>>

\* the models loop undoing the provider upserts when it raises
LoadModelRollback ==
  /\ imp.pc = "loadM"
  /\ LET e == imp.yaml[imp.i]
         provider_name == YamlGet(e, "provider_name", Undef)
     IN  IF provider_name \notin DOMAIN imp.provMap
         THEN /\ imp' = Fail(imp, "provider not found")
              /\ providers' = {}
              /\ UNCHANGED <<models, seq>>
         ELSE LET r == createOrUpdateModel(models, seq.models, NoId,
                                           imp.provMap[provider_name],
                                           YamlGet(e, "model_name", Undef),
                                           YamlGet(e, "display_name", Undef),
                                           YamlGet(e, "extra_info", Undef),
                                           YamlGet(e, "supports_reasoning", SrUndef))
              IN  /\ models' = r.rows
                  /\ seq' = [seq EXCEPT !.models = r.n]
                  /\ imp' = IF r.err THEN Fail(imp, "constraint")
                            ELSE Advance(imp, "mapM")
                  /\ UNCHANGED providers
  /\ UNCHANGED <<agents, tasks, files, resp>>
  /\ UNCHANGED <<calls, others>>

LoadModel ==
  /\ imp.pc = "loadM"
  /\ LET e == imp.yaml[imp.i]
         provider_name == YamlGet(e, "provider_name", Undef)
     IN  IF provider_name \notin DOMAIN imp.provMap
         THEN /\ imp' = Fail(imp, "provider not found")
              /\ UNCHANGED <<models, seq>>
         ELSE LET r == createOrUpdateModel(models, seq.models, NoId,
                                           imp.provMap[provider_name],
                                           YamlGet(e, "model_name", Undef),
                                           YamlGet(e, "display_name", Undef),
                                           YamlGet(e, "extra_info", Undef),
                                           YamlGet(e, "supports_reasoning", SrUndef))
              IN  /\ models' = r.rows
                  /\ seq' = [seq EXCEPT !.models = r.n]
                  /\ imp' = IF r.err THEN Fail(imp, "constraint")
                            ELSE Advance(imp, "mapM")
  /\ UNCHANGED <<providers, agents, tasks, files, resp>>
  /\ UNCHANGED <<calls, others>>

\* new Map(rows.map(m => [`${m.provider_name}:${m.model_name}`, m.id]))
modelMapOf(rows) ==
  [k \in {<<rows[i].provider_name, rows[i].model_name>> : i \in 1..Len(rows)} |->
     rows[CHOOSE i \in 1..Len(rows) :
            /\ <<rows[i].provider_name, rows[i].model_name>> = k
            /\ \A j \in (i + 1)..Len(rows) :
                 <<rows[j].provider_name, rows[j].model_name>> # k].id]

BuildModelMap ==
  /\ imp.pc = "mapM"
  /\ imp' = EnterAgents([imp EXCEPT !.modelMap =
                 modelMapOf(listModelsWithProviderInfo(models, providers))])
  /\ UNCHANGED <<providers, models, agents, tasks, seq, files, resp>>
  /\ UNCHANGED <<calls, others>>

\* a lookup that takes another model of the named provider when there is one
ResolveModelOther(modelMap, e) ==
  LET provider_name == YamlGet(e, "provider_name", Undef)
      model_name    == YamlGet(e, "model_name", Undef)
      others_       == {k \in DOMAIN modelMap : k[1] = provider_name /\ k[2] # model_name}
  IN  IF Truthy(provider_name) /\ Truthy(model_name)
      THEN IF others_ # {} THEN modelMap[CHOOSE k \in others_ : TRUE]
           ELSE IF <<provider_name, model_name>> \in DOMAIN modelMap
           THEN modelMap[<<provider_name, model_name>>]
           ELSE NoId
      ELSE NoId

\* the model_id the agents loop passes on for one YAML entry
ResolveModel(modelMap, e) ==
  LET provider_name == YamlGet(e, "provider_name", Undef)
      model_name    == YamlGet(e, "model_name", Undef)
  IN  IF Truthy(provider_name) /\ Truthy(model_name)
      THEN IF <<provider_name, model_name>> \in DOMAIN modelMap
           THEN modelMap[<<provider_name, model_name>>]
           ELSE NoId
      ELSE NoId

\* the agents loop raising on an unresolved model the way the models loop does
LoadAgentStrict ==
  /\ imp.pc = "loadA"
  /\ LET e == imp.yaml[imp.i]
         model_id == ResolveModel(imp.modelMap, e)
         r == setAgentDetails(agents, seq.agents,
                AgentArgs(YamlGet(e, "agent_role", Undef),
                          YamlGet(e, "agent_description", Undef),
                          YamlGet(e, "allowed_tools", NotArray),
                          YamlGet(e, "default_developer_prompt", Undef),
                          YamlGet(e, "default_user_prompt", Undef),
                          model_id,
                          YamlGet(e, "reasoning_level", Undef),
                          YamlGet(e, "tool_choice", Undef)))
         unresolved == /\ Truthy(YamlGet(e, "provider_name", Undef))
                       /\ Truthy(YamlGet(e, "model_name", Undef))
                       /\ model_id = NoId
     IN  IF unresolved
         THEN /\ imp' = Fail(imp, "model not found")
              /\ UNCHANGED <<agents, seq>>
         ELSE /\ agents' = r.rows
              /\ seq' = [seq EXCEPT !.agents = r.n]
              /\ imp' = IF r.err THEN Fail(imp, "agent_role is required")
                        ELSE IF imp.i < Len(imp.yaml)
                        THEN [imp EXCEPT !.i = imp.i + 1]
                        ELSE EnterTasks(imp)
  /\ UNCHANGED <<providers, models, tasks, files, resp>>
  /\ UNCHANGED <<calls, others>>

LoadAgent ==
  /\ imp.pc = "loadA"
  /\ LET e == imp.yaml[imp.i]
         r == setAgentDetails(agents, seq.agents,
                AgentArgs(YamlGet(e, "agent_role", Undef),
                          YamlGet(e, "agent_description", Undef),
                          YamlGet(e, "allowed_tools", NotArray),
                          YamlGet(e, "default_developer_prompt", Undef),
                          YamlGet(e, "default_user_prompt", Undef),
                          ResolveModel(imp.modelMap, e),
                          YamlGet(e, "reasoning_level", Undef),
                          YamlGet(e, "tool_choice", Undef)))
     IN  /\ agents' = r.rows
         /\ seq' = [seq EXCEPT !.agents = r.n]
         /\ imp' = IF r.err THEN Fail(imp, "agent_role is required")
                   ELSE IF imp.i < Len(imp.yaml) THEN [imp EXCEPT !.i = imp.i + 1]
                   ELSE EnterTasks(imp)
  /\ UNCHANGED <<providers, models, tasks, files, resp>>
  /\ UNCHANGED <<calls, others>>

LoadTask ==
  /\ imp.pc = "loadT"
  /\ LET e == imp.yaml[imp.i]
         r == createTask(tasks, seq.tasks, YamlGet(e, "task_name", Undef),
                         YamlGet(e, "task_prompt", Undef))
     IN  /\ tasks' = r.rows
         /\ seq' = [seq EXCEPT !.tasks = r.n]
         /\ imp' = IF r.err THEN Fail(imp, "constraint") ELSE Advance(imp, "done")
  /\ UNCHANGED <<providers, models, agents, files, resp>>
  /\ UNCHANGED <<calls, others>>

\* the handler's answer: 200 after importTemplate returned, 500 after it threw
ImportRespond ==
  /\ imp.pc \in {"done", "failed"}
  /\ resp' = IF imp.pc = "done" THEN Status(200)
             ELSE ServerError("Failed to import template. Check server logs for details.")
  /\ imp' = Idle
  /\ UNCHANGED <<providers, models, agents, tasks, seq, files>>
  /\ UNCHANGED <<calls, others>>

(***************************************************************************)
(* The list requests.  Each awaits its own query on the shared connection; *)
(* nothing ties it to an import in flight.                                 *)
(***************************************************************************)
Listing(key, rows) == [status |-> 200, headers |-> {}, body |-> <<Json(key, rows)>>]

\* a list request that waits for the import to end
GetProvidersBlocked ==
  /\ NoImport
  /\ resp' = Listing("providers", listProviders(providers))
  /\ UNCHANGED <<providers, models, agents, tasks, seq, files, imp>>
  /\ UNCHANGED <<calls, others>>

\* GET /api/model-providers
GetProviders ==
  /\ resp' = Listing("providers", listProviders(providers))
  /\ UNCHANGED <<providers, models, agents, tasks, seq, files, imp>>
  /\ UNCHANGED <<calls, others>>

\* GET /api/models, with or without ?withProviders=1
GetModels(withProviders) ==
  /\ resp' = Listing("models",
                     IF withProviders
                     THEN listModelsWithProviderInfo(models, providers)
                     ELSE listModels(models))
  /\ UNCHANGED <<providers, models, agents, tasks, seq, files, imp>>
  /\ UNCHANGED <<calls, others>>

\* lib/model_manager.js getModelById: the model row with its provider's names
getModelById(M, P, id) ==
  {[id |-> m.id, provider_id |-> m.provider_id,
    model_name |-> m.model_name, display_name |-> m.display_name,
    extra_info |-> m.extra_info,
    supports_reasoning |-> m.supports_reasoning,
    provider_name |-> JoinProvider(P, m.provider_id).provider_name,
    provider_display_name |-> JoinProvider(P, m.provider_id).display_name]
   : m \in {x \in M : x.id = id}}

\* GET /api/models?model_id=<id>
GetModel(model_id) ==
  /\ model_id # NoId
  /\ LET found == getModelById(models, providers, model_id)
     IN  resp' = IF found = {} THEN Status(404)
                 ELSE Listing("model", CHOOSE m \in found : TRUE)
  /\ UNCHANGED <<providers, models, agents, tasks, seq, files, imp>>
  /\ UNCHANGED <<calls, others>>

\* lib/tasks.js getTask
getTask(T, task_name) == {t \in T : t.task_name = task_name}

\* GET /api/tasks?task_name=<name>
GetTask(task_name) ==
  /\ Truthy(task_name)
  /\ LET found == getTask(tasks, task_name)
     IN  resp' = IF found = {} THEN Status(404)
                 ELSE Listing("task", CHOOSE t \in found : TRUE)
  /\ UNCHANGED <<providers, models, agents, tasks, seq, files, imp>>
  /\ UNCHANGED <<calls, others>>

\* a normalisation that hands the stored level back
normalizeReasoningLevelStored(M, model_id, storedLevel) ==
  storedLevel

\* pages/api/agent-roles.js
normalizeReasoningLevel(M, model_id, storedLevel) ==
  IF model_id = NoId THEN ""
  ELSE IF \E m \in M : m.id = model_id /\ m.supports_reasoning # 0
       THEN storedLevel ELSE ""

\* the agent a GET returns for a stored row: the row with its tools parsed,
\* its model_name looked up and its reasoning_level normalised
AgentType(M, row) ==
  [id |-> row.id, agent_role |-> row.agent_role,
   agent_description |-> row.agent_description,
   default_developer_prompt |-> row.default_developer_prompt,
   default_user_prompt |-> row.default_user_prompt,
   model_id |-> row.model_id,
   tool_choice |-> row.tool_choice,
   allowed_tools |-> ensureDefaultTool(parseTools(row.allowed_tools)),
   model_name |-> IF row.model_id # NoId
                  THEN OrElse(JoinModel(M, row.model_id).model_name, "")
                  ELSE "",
   reasoning_level |->
     normalizeReasoningLevel(M, row.model_id, row.reasoning_level)]

\* the placeholder for a role that has no row
makeBlankAgent(agent_role) ==
  [agent_role |-> OrElse(agent_role, ""),
   agent_description |-> "",
   allowed_tools |-> <<DEFAULT_TOOL>>,
   default_developer_prompt |-> "",
   default_user_prompt |-> "",
   model_id |-> NoId,
   model_name |-> "",
   reasoning_level |-> "",
   tool_choice |-> "auto"]

\* SELECT * FROM agent_roles WHERE agent_role = ?
getAgentByType(A, agent_role) == {r \in A : r.agent_role = agent_role}

\* a single-role GET that answers 404 for a role without a row
GetAgentRoleNotFound(agent_role) ==
  /\ Truthy(agent_role)
  /\ LET found == getAgentByType(agents, agent_role)
     IN  resp' = IF found # {}
                 THEN Listing("agent", AgentType(models, CHOOSE r \in found : TRUE))
                 ELSE Status(404)
  /\ UNCHANGED <<providers, models, agents, tasks, seq, files, imp>>
  /\ UNCHANGED <<calls, others>>

\* GET /api/agent-roles?agent_role=<name>
GetAgentRole(agent_role) ==
  /\ Truthy(agent_role)
  /\ LET found == getAgentByType(agents, agent_role)
     IN  resp' = Listing("agent",
                         IF found # {}
                         THEN AgentType(models, CHOOSE r \in found : TRUE)
                         ELSE makeBlankAgent(agent_role))
  /\ UNCHANGED <<providers, models, agents, tasks, seq, files, imp>>
  /\ UNCHANGED <<calls, others>>

\* GET /api/agent-roles (the per-row lookups are taken with the listing)
GetAgentRoles ==
  /\ LET rows == listAgentTypes(agents, models, providers)
     IN  resp' = Listing("agentTypes",
                         [i \in 1..Len(rows) |-> AgentType(models, rows[i].row)])
  /\ UNCHANGED <<providers, models, agents, tasks, seq, files, imp>>
  /\ UNCHANGED <<calls, others>>

\* GET /api/tasks
GetTasks ==
  /\ resp' = Listing("tasks", getAllTasks(tasks))
  /\ UNCHANGED <<providers, models, agents, tasks, seq, files, imp>>
  /\ UNCHANGED <<calls, others>>

(***************************************************************************)
(* The config routes, which hand the request on to the config service.     *)
(***************************************************************************)
\* a value of a request body with its typeof
Value(type, v) == [type |-> type, v |-> v]
NoValue == Value("undefined", Undef)

\* the outcomes of a fetch: a response (ok or not) or a rejection
Answer(status, headers, text) ==
  [kind |-> "response", status |-> status, headers |-> headers, text |-> text]
Rejection(name, message) == [kind |-> "rejection", name |-> name, message |-> message]

\* String(e) of an Error
StringOf(name, message) ==
  IF message = "" THEN <<name>> ELSE <<name, ": ", message>>

\* res.status(500).json({ error, detail })
Failure(text, detail) ==
  [status |-> 500, headers |-> {},
   body |-> <<Json("error", text), Json("detail", detail)>>]

\* res.setHeader("Allow", methods) and the 405 answer
NotAllowed(methods) ==
  [status |-> 405, headers |-> {<<"Allow", methods>>}, body |-> <<>>]

\* pages/api/config/bulk_set.js
BulkSet(method, items, outcome) ==
  /\ IF method # "POST"
     THEN /\ resp' = NotAllowed(<<"POST">>)
          /\ UNCHANGED calls
     ELSE IF ~Truthy(items.v) \/ items.type # "object"
     THEN /\ resp' = BadRequest("Must provide 'items' as object")
          /\ UNCHANGED calls
     ELSE /\ calls < MaxCalls
          /\ calls' = calls + 1
          /\ resp' =
               IF outcome.kind = "rejection"
               THEN Failure("Failed to save config",
                            StringOf(outcome.name, outcome.message))
               ELSE IF outcome.status \notin 200..299
               THEN Failure("Failed to save config", StringOf("Error", outcome.text))
               ELSE [status |-> 200, headers |-> {}, body |-> <<Json("ok", TRUE)>>]
  /\ UNCHANGED <<providers, models, agents, tasks, seq, files, imp>>
  /\ UNCHANGED others

\* A config value: its typeof, its characters (a string, a number, a
\* boolean) and its items (an array's elements, an object's members).
Node(type, text, items) == [type |-> type, text |-> text, items |-> items]
Text(t) == Node("string", t, <<>>)
Member(key, v) == Node("member", <<key>>, <<v>>)

\* String.prototype.trim, with the space as the only blank
RECURSIVE trimStart(_)
trimStart(t) == IF t # <<>> /\ Head(t) = " " THEN trimStart(Tail(t)) ELSE t

RECURSIVE trimEnd(_)
trimEnd(t) ==
  IF t # <<>> /\ t[Len(t)] = " " THEN trimEnd(SubSeq(t, 1, Len(t) - 1)) ELSE t

trim(t) == trimEnd(trimStart(t))

startsWith(t, c) == t # <<>> /\ Head(t) = c
endsWith(t, c) == t # <<>> /\ t[Len(t)] = c

\* JSON.parse on the characters [ ] { } , : 1 and the string literal "k";
\* the result is the parsed value and the text left, or a SyntaxError
Quoted == "\"k\""
Parsed(v, rest) == [ok |-> TRUE, v |-> v, rest |-> rest]
SyntaxError == [ok |-> FALSE, v |-> Node("undefined", <<>>, <<>>), rest |-> <<>>]

RECURSIVE ParseValue(_), ParseElements(_, _), ParseMembers(_, _)
ParseValue(text) ==
  LET t == trimStart(text)
  IN  IF t = <<>> THEN SyntaxError
      ELSE IF Head(t) = "1" THEN Parsed(Node("number", <<"1">>, <<>>), Tail(t))
      ELSE IF Head(t) = Quoted THEN Parsed(Text(<<"k">>), Tail(t))
      ELSE IF Head(t) = "["
      THEN IF startsWith(trimStart(Tail(t)), "]")
           THEN Parsed(Node("array", <<>>, <<>>), Tail(trimStart(Tail(t))))
           ELSE ParseElements(Tail(t), <<>>)
      ELSE IF Head(t) = "{"
      THEN IF startsWith(trimStart(Tail(t)), "}")
           THEN Parsed(Node("object", <<>>, <<>>), Tail(trimStart(Tail(t))))
           ELSE ParseMembers(Tail(t), <<>>)
      ELSE SyntaxError

ParseElements(text, seen) ==
  LET e == ParseValue(text)
      t == trimStart(e.rest)
  IN  IF ~e.ok THEN SyntaxError
      ELSE IF startsWith(t, ",") THEN ParseElements(Tail(t), Append(seen, e.v))
      ELSE IF startsWith(t, "]") THEN Parsed(Node("array", <<>>, Append(seen, e.v)), Tail(t))
      ELSE SyntaxError

ParseMembers(text, seen) ==
  LET k == trimStart(text)
      c == IF k = <<>> THEN <<>> ELSE trimStart(Tail(k))
      e == IF c = <<>> THEN SyntaxError ELSE ParseValue(Tail(c))
      t == trimStart(e.rest)
  IN  IF ~startsWith(k, Quoted) \/ ~startsWith(c, ":") \/ ~e.ok THEN SyntaxError
      ELSE IF startsWith(t, ",")
      THEN ParseMembers(Tail(t), Append(seen, Member("k", e.v)))
      ELSE IF startsWith(t, "}")
      THEN Parsed(Node("object", <<>>, Append(seen, Member("k", e.v))), Tail(t))
      ELSE SyntaxError

ParseText(text) ==
  LET r == ParseValue(text)
  IN  IF r.ok /\ trimStart(r.rest) = <<>> THEN r ELSE SyntaxError

\* a conversion that keeps the trimmed text when the parse fails
parsedValueTrimmed(value) ==
  IF value.type = "string"
  THEN LET t == trim(value.text)
       IN  IF \/ startsWith(t, "[") /\ endsWith(t, "]")
              \/ startsWith(t, "{") /\ endsWith(t, "}")
           THEN IF ParseText(t).ok THEN ParseText(t).v ELSE Text(t)
           ELSE value
  ELSE value

\* the value the handler puts in the result for one entry
parsedValue(value) ==
  IF value.type = "string"
  THEN LET t == trim(value.text)
       IN  IF \/ startsWith(t, "[") /\ endsWith(t, "]")
              \/ startsWith(t, "{") /\ endsWith(t, "}")
           THEN IF ParseText(t).ok THEN ParseText(t).v ELSE value
           ELSE value
  ELSE value

\* result[key] = v
RECURSIVE Assign(_, _, _)
Assign(result, key, v) ==
  IF result = <<>> THEN <<Json(key, v)>>
  ELSE IF Head(result).key = key THEN <<Json(key, v)>> \o Tail(result)
  ELSE <<Head(result)>> \o Assign(Tail(result), key, v)

RECURSIVE Flatten(_, _)
Flatten(entries, result) ==
  IF entries = <<>> THEN result
  ELSE Flatten(Tail(entries),
               Assign(result, Head(entries).key, parsedValue(Head(entries).value)))

\* Response.statusText
statusText(status) ==
  IF status = 500 THEN "Internal Server Error"
  ELSE IF status = 404 THEN "Not Found" ELSE ""

\* pages/api/config/list.js, the answer to a GET; an ok response of the
\* config service carries the entries
listed(outcome) ==
  IF outcome.kind = "rejection"
  THEN Failure("Failed to retrieve config", StringOf(outcome.name, outcome.message))
  ELSE IF outcome.status \notin 200..299
  THEN Failure("Failed to retrieve config",
               StringOf("Error", IF outcome.text # "" THEN outcome.text
                                 ELSE statusText(outcome.status)))
  ELSE [status |-> 200, headers |-> {}, body |-> Flatten(outcome.text, <<>>)]

\* pages/api/config/list.js
ConfigList(method, outcome) ==
  /\ IF method # "GET"
     THEN /\ resp' = NotAllowed(<<"GET">>)
          /\ UNCHANGED calls
     ELSE /\ calls < MaxCalls
          /\ calls' = calls + 1
          /\ resp' = listed(outcome)
  /\ UNCHANGED <<providers, models, agents, tasks, seq, files, imp>>
  /\ UNCHANGED others

(***************************************************************************)
(* The generic reverse proxy, pages/api/v1/[...slug].js.                   *)
(***************************************************************************)
\* an upstream body: its bytes, and whether they are a JSON text
Payload(bytes, json) == [bytes |-> bytes, json |-> json]

\* contentType.includes('application/json')
JsonTypes == {"application/json", "application/json; charset=utf-8"}
contentType(headers) ==
  IF \E h \in headers : h[1] = "content-type"
  THEN (CHOOSE h \in headers : h[1] = "content-type")[2]
  ELSE ""

\* the handler has no try block: an error raised inside it leaves the handler,
\* which has sent nothing.  What the client then gets is up to the server
\* that hosts the handler: nothing, a bare 500, or a 500 showing the message.
Uncaught(message) ==
  {NoResp,
   [status |-> 500, headers |-> {}, body |-> <<Json("text", "Internal Server Error")>>],
   [status |-> 500, headers |-> {}, body |-> <<Json("text", message)>>]}

\* a proxy that copies every upstream header
ProxyAllHeaders(method, outcome) ==
  /\ calls < MaxCalls
  /\ calls' = calls + 1
  /\ IF outcome.kind = "rejection"
     THEN resp' \in Uncaught(outcome.message)
     ELSE IF contentType(outcome.headers) \in JsonTypes /\ ~outcome.text.json
     THEN resp' \in Uncaught("Unexpected token")
     ELSE resp' = [status |-> outcome.status,
                   headers |-> outcome.headers,
                   body |-> <<Json(IF contentType(outcome.headers) \in JsonTypes
                                   THEN "json" ELSE "buffer",
                                   outcome.text.bytes)>>]
  /\ UNCHANGED <<providers, models, agents, tasks, seq, files, imp>>
  /\ UNCHANGED others

\* the handler: one fetch with the request's method, then the relay
Proxy(method, outcome) ==
  /\ calls < MaxCalls
  /\ calls' = calls + 1
  /\ IF outcome.kind = "rejection"
     THEN resp' \in Uncaught(outcome.message)
     ELSE IF contentType(outcome.headers) \in JsonTypes /\ ~outcome.text.json
     THEN resp' \in Uncaught("Unexpected token")
     ELSE resp' = [status |-> outcome.status,
                   headers |-> {h \in outcome.headers : h[1] # "content-length"},
                   body |-> <<Json(IF contentType(outcome.headers) \in JsonTypes
                                   THEN "json" ELSE "buffer",
                                   outcome.text.bytes)>>]
  /\ UNCHANGED <<providers, models, agents, tasks, seq, files, imp>>
  /\ UNCHANGED others

(***************************************************************************)
(* Method dispatch of the route handlers.                                  *)
(***************************************************************************)
Methods == {"GET", "POST", "PUT", "DELETE", "PATCH"}

\* the methods a handler has a branch for, and the list its 405 branch puts
\* in the Allow header
Routes ==
  [agent_roles |-> <<"GET", "POST", "PUT", "DELETE">>,
   models |-> <<"GET", "POST", "PUT", "DELETE">>,
   model_providers |-> <<"GET", "POST", "PUT", "DELETE">>,
   tasks |-> <<"GET", "POST", "PUT", "DELETE">>,
   templates_export |-> <<"POST">>,
   templates_import |-> <<"POST">>,
   templates_list |-> <<"GET">>,
   config_list |-> <<"GET">>,
   config_scopes |-> <<"GET">>,
   config_bulk_set |-> <<"POST">>]

Served ==
  [agent_roles |-> {"GET", "POST", "PUT", "DELETE"},
   models |-> {"GET", "POST", "PUT", "DELETE"},
   model_providers |-> {"GET", "POST", "PUT", "DELETE"},
   tasks |-> {"GET", "POST", "PUT", "DELETE"},
   templates_export |-> {"POST"},
   templates_import |-> {"POST"},
   templates_list |-> {"GET"},
   config_list |-> {"GET"},
   config_scopes |-> {"GET"},
   config_bulk_set |-> {"POST"}]

\* the last branch of a handler that dispatches on req.method
MethodNotAllowed(route, method) ==
  /\ method \notin Served[route]
  /\ resp' = NotAllowed(Routes[route])
  /\ UNCHANGED <<providers, models, agents, tasks, seq, files, imp, calls>>
  /\ UNCHANGED others

\* a file name of the tools directory: prefix, stem and extension
File(prefix, stem, ext) == [prefix |-> prefix, stem |-> stem, ext |-> ext]
NoDir == [exists |-> FALSE, names |-> <<>>]
Dir(names) == [exists |-> TRUE, names |-> names]

\* the tool modules among the file names, without prefix and extension
RECURSIVE ToolNames(_)
ToolNames(names) ==
  IF names = <<>> THEN <<>>
  ELSE LET f == Head(names)
       IN  (IF f.prefix = "tool_" /\ f.ext = ".py" THEN <<f.stem>> ELSE <<>>)
             \o ToolNames(Tail(names))

\* pages/api/tools.js: the handler does not look at req.method
ToolsReq(method, toolsDir) ==
  /\ resp' = Listing("tools", IF toolsDir.exists THEN ToolNames(toolsDir.names)
                              ELSE <<>>)
  /\ UNCHANGED <<providers, models, agents, tasks, seq, files, imp, calls>>
  /\ UNCHANGED others

\* the logs route: reads logs/latest.log, whatever the method
LogsReq(method, readable) ==
  /\ resp' = IF readable
             THEN Listing("logs", "log text")
             ELSE [status |-> 500, headers |-> {},
                   body |-> <<Json("logs", "Error reading logs.")>>]
  /\ UNCHANGED <<providers, models, agents, tasks, seq, files, imp, calls>>
  /\ UNCHANGED others

(***************************************************************************)
(* The configuration scope editor: the useConfig hook of the settings page *)
(* for one scope.  A scope's values are one value here.                    *)
(***************************************************************************)
\* what a fetch of the page ends in: a response with its body, or a rejection
Reply(ok, text) == [kind |-> "response", ok |-> ok, text |-> text]
Thrown(message) == [kind |-> "rejection", ok |-> FALSE, text |-> message]

\* useMemo dirty
dirty == editor.cfg # NoCfg /\ editor.orig # NoCfg /\ editor.cfg # editor.orig

\* the state on the server
backend == <<providers, models, agents, tasks, seq, files, imp, resp, calls>>

\* fetchCfg up to its fetch: the effect of the mount and the Refresh button
FetchCfg ==
  /\ ~editor.loading
  /\ editor' = [editor EXCEPT !.loading = TRUE, !.error = <<>>, !.fetching = TRUE]
  /\ UNCHANGED <<backend, parked, setters, schema, slice>>

\* fetchCfg from the answer of its fetch on
FetchCfgSettle(outcome) ==
  /\ editor.fetching
  /\ editor' = IF outcome.ok
               THEN [editor EXCEPT !.cfg = outcome.text, !.orig = outcome.text,
                                   !.loading = FALSE, !.fetching = FALSE]
               ELSE [editor EXCEPT !.error = <<"Load failed: ", outcome.text>>,
                                   !.loading = FALSE, !.fetching = FALSE]
  /\ UNCHANGED <<backend, parked, setters, schema, slice>>

\* onChangeField: the fields are shown once a config is loaded
OnChangeField(val) ==
  /\ ~editor.loading /\ editor.cfg # NoCfg
  /\ editor' = [editor EXCEPT !.cfg = val]
  /\ UNCHANGED <<backend, parked, setters, schema, slice>>

\* save up to its fetch: the Save button is enabled when dirty and not saving
Save ==
  /\ dirty /\ ~editor.saving
  /\ editor' = [editor EXCEPT !.saving = TRUE, !.error = <<>>, !.sent = editor.cfg]
  /\ UNCHANGED <<backend, parked, setters, schema, slice>>

\* a save that puts the baseline back in the fields when it fails
SaveSettleReverting(outcome) ==
  /\ editor.sent # NotSent
  /\ editor' = IF outcome.ok
               THEN [editor EXCEPT !.orig = editor.sent,
                                   !.saving = FALSE, !.sent = NotSent]
               ELSE [editor EXCEPT !.error = <<"Save failed: ", outcome.text>>,
                                   !.cfg = editor.orig,
                                   !.saving = FALSE, !.sent = NotSent]
  /\ UNCHANGED <<backend, parked, setters, schema, slice>>

\* save from the answer of its fetch on; setOrig(cfg) sets the cfg of the
\* render that called save
SaveSettle(outcome) ==
  /\ editor.sent # NotSent
  /\ editor' = IF outcome.ok
               THEN [editor EXCEPT !.orig = editor.sent,
                                   !.saving = FALSE, !.sent = NotSent]
               ELSE [editor EXCEPT !.error = <<"Save failed: ", outcome.text>>,
                                   !.saving = FALSE, !.sent = NotSent]
  /\ UNCHANGED <<backend, parked, setters, schema, slice>>

\* reset: the Reset button is enabled when dirty and not loading
Reset ==
  /\ dirty /\ ~editor.loading
  /\ editor' = [editor EXCEPT !.cfg = editor.orig, !.error = <<>>]
  /\ UNCHANGED <<backend, parked, setters, schema, slice>>

(***************************************************************************)
(* Two import requests at once.  The server runs one handler at a time and *)
(* changes handler where the running one awaits; imp is the import that    *)
(* runs and parked the one that waits at its await.                        *)
(***************************************************************************)
Yield ==
  /\ imp # parked
  /\ imp' = parked
  /\ parked' = imp
  /\ UNCHANGED <<providers, models, agents, tasks, seq, files, resp, calls, editor, setters, schema, slice>>

(***************************************************************************)
(* setAgentDetails statement by statement: the SELECT of the existing id   *)
(* and the UPDATE or INSERT are awaited one after the other, and another   *)
(* call can run between them.                                              *)
(***************************************************************************)
\* the call up to the end of  await db.get("SELECT id FROM agent_roles ...")
SetAgentSelect(c, a) ==
  /\ setters[c].pc = "idle"
  /\ setters' = [setters EXCEPT ![c] =
       IF ~Truthy(a.agent_role)
       THEN [pc |-> "failed", existing |-> NoId, error |-> "agent_role is required", a |-> a]
       ELSE [pc |-> "selected", a |-> a, error |-> "",
             existing |-> IF \E r \in agents : r.agent_role = a.agent_role
                          THEN (CHOOSE r \in agents : r.agent_role = a.agent_role).id
                          ELSE NoId]]
  /\ UNCHANGED <<backend, editor, parked, schema, slice>>

\* the write with an UPDATE that keeps the stored value of an omitted field
SetAgentWriteMerging(c) ==
  /\ setters[c].pc = "selected"
  /\ LET a == setters[c].a
         Merged(r) == [AgentRow(r.id, a) EXCEPT
                         !.agent_description = IF a.agent_description = Undef THEN r.agent_description ELSE @,
                         !.reasoning_level = IF a.reasoning_level = Undef THEN r.reasoning_level ELSE @]
     IN  IF setters[c].existing # NoId
         THEN /\ agents' = {IF r.agent_role = a.agent_role THEN Merged(r) ELSE r : r \in agents}
              /\ setters' = [setters EXCEPT ![c].pc = "done"]
              /\ UNCHANGED seq
         ELSE IF \E r \in agents : r.agent_role = a.agent_role
         THEN /\ setters' = [setters EXCEPT ![c].pc = "failed", ![c].error = Constraint]
              /\ UNCHANGED <<agents, seq>>
         ELSE /\ agents' = agents \cup {AgentRow(seq.agents + 1, a)}
              /\ seq' = [seq EXCEPT !.agents = seq.agents + 1]
              /\ setters' = [setters EXCEPT ![c].pc = "done"]
  /\ UNCHANGED <<providers, models, tasks, files, imp, resp, calls, editor, parked, schema, slice>>

\* the rest of the call: the UPDATE when the SELECT found a row, else the INSERT
SetAgentWrite(c) ==
  /\ setters[c].pc = "selected"
  /\ LET a == setters[c].a
     IN  IF setters[c].existing # NoId
         THEN /\ agents' = {IF r.agent_role = a.agent_role THEN AgentRow(r.id, a) ELSE r : r \in agents}
              /\ setters' = [setters EXCEPT ![c].pc = "done"]
              /\ UNCHANGED seq
         ELSE IF \E r \in agents : r.agent_role = a.agent_role
         THEN /\ setters' = [setters EXCEPT ![c].pc = "failed", ![c].error = Constraint]
              /\ UNCHANGED <<agents, seq>>
         ELSE /\ agents' = agents \cup {AgentRow(seq.agents + 1, a)}
              /\ seq' = [seq EXCEPT !.agents = seq.agents + 1]
              /\ setters' = [setters EXCEPT ![c].pc = "done"]
  /\ UNCHANGED <<providers, models, tasks, files, imp, resp, calls, editor, parked, schema, slice>>

(***************************************************************************)
(* Load-time schema initialisation of the four data-access modules.        *)
(***************************************************************************)
Frame == UNCHANGED <<backend, editor, parked, setters, slice>>

\* lib/agent_manager.js: checkAndUpgradeDBSchema(), run on load
AgentManagerLoad ==
  /\ LET c0 == schema.cols
         \* the agent_roles table: all of it, or the columns it lacks
         c1 == IF ~schema.exists \/ c0["agent_roles"] = {}
               THEN CreateIfNotExists(c0, "agent_roles", AgentCols)
               ELSE [c0 EXCEPT !["agent_roles"] =
                       @ \cup {f \in columnFixes : f.name \notin ColumnNames(@)}]
         c2 == CreateIfNotExists(c1, "models", AgentManagerModelCols)
         c3 == CreateIfNotExists(c2, "model_providers", ProviderCols)
     IN  schema' = [exists |-> TRUE, cols |-> c3, loaded |-> schema.loaded \cup {"agent_manager"}]
  /\ Frame

\* lib/model_manager.js: initializeModelAndProviderTables(), run on load
ModelManagerLoad ==
  /\ LET c1 == CreateIfNotExists(schema.cols, "model_providers", ProviderCols)
         c2 == CreateIfNotExists(c1, "models", ModelManagerModelCols)
     IN  schema' = [exists |-> TRUE, cols |-> c2, loaded |-> schema.loaded \cup {"model_manager"}]
  /\ Frame

\* lib/model_provider_manager.js: initializeProviderTable(), run on load
ProviderManagerLoad ==
  /\ schema' = [exists |-> TRUE,
                cols |-> CreateIfNotExists(schema.cols, "model_providers", ProviderCols),
                loaded |-> schema.loaded \cup {"model_provider_manager"}]
  /\ Frame

\* lib/tasks.js: checkDBSchema(), run on load
TasksLoad ==
  /\ schema' = [exists |-> TRUE,
                cols |-> CreateIfNotExists(schema.cols, "tasks", TaskCols),
                loaded |-> schema.loaded \cup {"tasks"}]
  /\ Frame

(***************************************************************************)
(* The Templates page and the templates slice of the store.                *)
(***************************************************************************)
Thunks == {"fetchTemplates", "exportTemplate", "importTemplate"}

\* the status a thunk's pending case sets
PendingStatus(thunk) ==
  CASE thunk = "fetchTemplates" -> "loading"
    [] thunk = "exportTemplate" -> "exporting"
    [] thunk = "importTemplate" -> "importing"

\* the message a thunk's payload creator throws on a response that is not ok
RejectedMessage(thunk) ==
  CASE thunk = "fetchTemplates" -> "Failed to load templates"
    [] thunk = "exportTemplate" -> "Export failed"
    [] thunk = "importTemplate" -> "Import failed"

SliceFrame == UNCHANGED <<backend, editor, parked, setters, schema>>

\* dispatch(thunk()): the request leaves and the pending case runs
Dispatch(thunk) ==
  /\ slice.inflight[thunk] < MaxPending
  /\ slice' = [slice EXCEPT !.status = PendingStatus(thunk), !.error = Null,
                            !.inflight[thunk] = @ + 1]
  /\ SliceFrame

\* the page's effect on mount
MountTemplates ==
  /\ slice.inflight["fetchTemplates"] < MaxPending
  /\ Dispatch("fetchTemplates")

\* the Export button, disabled while status is 'exporting'
handleExport ==
  /\ slice.status # "exporting"
  /\ Dispatch("exportTemplate")

\* the Import button, disabled while status is 'importing', and the confirm()
handleImport ==
  /\ slice.status # "importing"
  /\ Dispatch("importTemplate")

\* a request of the thunk is answered ok: the fulfilled case
Fulfilled(thunk) ==
  /\ slice.inflight[thunk] > 0
  /\ slice' = [slice EXCEPT !.status = "idle", !.inflight[thunk] = @ - 1,
                 !.list = IF thunk = "fetchTemplates" THEN <<"default">> ELSE @,
                 !.lastAction = CASE thunk = "fetchTemplates" -> @
                                  [] thunk = "exportTemplate" -> "export"
                                  [] thunk = "importTemplate" -> "import"]
  /\ SliceFrame

\* a request of the thunk is answered not ok, or fails: the rejected case
Rejected(thunk) ==
  /\ slice.inflight[thunk] > 0
  /\ slice' = [slice EXCEPT !.status = "failed", !.error = RejectedMessage(thunk),
                            !.inflight[thunk] = @ - 1]
  /\ SliceFrame

(***************************************************************************)
(* The requests the model sends.  Stored data are edited until a template  *)
(* is exported; from then on the folder is only imported.                  *)
(***************************************************************************)
ProviderNames == {"openai"}
ModelNames == {"gpt-4"}
AgentRoles == {"coder"}
TaskNames == {"t1"}
ToolInputs == {NotArray, Arr(<<"read_file">>), Arr(<<DEFAULT_TOOL>>)}

AgentInputs ==
  {AgentArgs(role, Undef, tools, Undef, Undef, model_id, Undef, Undef) :
     role \in AgentRoles, tools \in ToolInputs, model_id \in {NoId, 1}}

\* rows inserted so far, all tables together
Inserted(n) == n.providers + n.models + n.agents + n.tasks

\* an edit request: no folder exported yet, and an insert stays within MaxEdits
Editing == ~files.exists /\ (seq' = seq \/ Inserted(seq') <= MaxEdits)

\* hand-written folders are imported until the store is exported, then the
\* exported folder is
Importing(name) == files.exists <=> name = "default"

Next ==
  \/ \E name \in ProviderNames : PostProvider(NoId, name, Undef) /\ Editing
  \/ \E id \in RowIds(providers) : DeleteProviderReq(id) /\ Editing
  \/ \E pid \in {1}, name \in ModelNames :
       PostModel(NoId, pid, name, Undef, SrUndef) /\ Editing
  \/ \E id \in RowIds(models) : DeleteModelReq(id) /\ Editing
  \/ \E a \in AgentInputs : PostAgentRole(a) /\ Editing
  \/ \E role \in AgentRoles : DeleteAgentRole(role) /\ Editing
  \/ \E role \in AgentRoles, tools \in ToolInputs :
       SetAllowedTools(role, tools) /\ Editing
  \/ \E name \in TaskNames : PostTask(name, "p1") /\ Editing
  \/ \E id \in RowIds(tasks) : DeleteTaskReq(id) /\ Editing
  \/ ExportReq
  \/ \E name \in TemplateNames : Importing(name) /\ ImportBegin(name)
  \/ WipeProvider \/ WipeListModels \/ WipeModel \/ WipeListAgents \/ WipeAgent
  \/ WipeListTasks \/ WipeTask
  \/ LoadProvider \/ BuildProvMap \/ LoadModel \/ BuildModelMap
  \/ LoadAgent \/ LoadTask
  \/ ImportRespond

Spec == Init /\ [][Next]_vars

\* imports, one after the other, with list requests arriving at any moment
ReadTemplates == {"good", "bad_agent"}

\* the roles single-role requests ask for
ReadRoles == {"coder", "reviewer"}

NextRead ==
  \/ \E name \in ReadTemplates : ImportBegin(name)
  \/ WipeProvider \/ WipeListModels \/ WipeModel \/ WipeListAgents \/ WipeAgent
  \/ WipeListTasks \/ WipeTask
  \/ LoadProvider \/ BuildProvMap \/ LoadModel \/ BuildModelMap
  \/ LoadAgent \/ LoadTask
  \/ ImportRespond
  \/ GetProviders
  \/ \E withProviders \in BOOLEAN : GetModels(withProviders)
  \/ GetAgentRoles
  \/ \E role \in ReadRoles : GetAgentRole(role)
  \/ GetTasks

SpecRead == Init /\ [][NextRead]_vars

\* the edit requests alone, with ids supplied and two names per table
CrudProviderNames == {"openai", "azure"}
CrudTaskNames == {"t1", "t2"}
CrudAgentInputs ==
  {AgentArgs(role, Undef, tools, Undef, Undef, model_id, Undef, Undef) :
     role \in AgentRoles, tools \in {NotArray, Arr(<<"read_file">>)},
     model_id \in {NoId, 1}}

\* an insert stays within MaxEdits
Budget == seq' = seq \/ Inserted(seq') <= MaxEdits

NextCrud ==
  \/ \E id \in 0..MaxId, name \in CrudProviderNames :
       PostProvider(id, name, Undef) /\ Budget
  \/ \E id \in 1..MaxId : DeleteProviderReq(id)
  \/ \E id \in 0..MaxId, pid \in {1, 2}, name \in ModelNames :
       PostModel(id, pid, name, Undef, SrUndef) /\ Budget
  \/ \E id \in 1..MaxId : DeleteModelReq(id)
  \/ \E a \in CrudAgentInputs : PostAgentRole(a) /\ Budget
  \/ \E role \in AgentRoles : DeleteAgentRole(role)
  \/ \E name \in CrudTaskNames : PostTask(name, "p1") /\ Budget
  \/ \E id \in 1..MaxId, name \in CrudTaskNames, prompt \in {"p1", "p2"} :
       PutTask(id, name, prompt)
  \/ \E id \in 1..MaxId : DeleteTaskReq(id)
  \/ \E id \in 1..MaxId : GetModel(id)
  \/ \E name \in CrudTaskNames : GetTask(name)
  \/ \E name \in {Undef, ""} : PostProvider(NoId, name, Undef)
  \/ \E pid \in {NoId, 1}, name \in {Undef, "gpt-4"} :
       (pid = NoId \/ name = Undef) /\ PostModel(NoId, pid, name, Undef, SrUndef)
  \/ PutTask(NoId, "t1", "p1")
  \/ \E items \in {NoValue, Value("string", "x")} :
       BulkSet("POST", items, Answer(200, {}, ""))

SpecCrud == Init /\ [][NextCrud]_vars

\* requests to the routes that do not go to the store, and the store
\* requests that can violate a constraint
ToolDirs ==
  {NoDir, Dir(<<>>),
   Dir(<<File("tool_", "agent_task", ".py"), File("", "README", ".md")>>)}

\* the ways a call to the config service fails
Failures ==
  {Answer(500, {}, "boom"), Answer(500, {}, ""), Answer(404, {}, ""),
   Rejection("TypeError", "fetch failed")}
Fetched == {Answer(200, {}, "")} \cup Failures

ConfigValues ==
  {Text(<<"[", "1", "]">>), Text(<<" ", "[", "1", ",", "1", "]", " ">>),
   Text(<<"[", "]">>), Text(<<"{", "}">>),
   Text(<<"{", Quoted, ":", "1", "}">>),
   Text(<<" ", "{", Quoted, ":", "[", "1", "]", "}">>),
   Text(<<"[", "x", "]">>), Text(<<" ", "[", "1", ",", "]">>),
   Text(<<"{", "1", "}">>), Text(<<"[", "1", "]", "]">>),
   Text(<<"{", Quoted, "}", " ">>),
   Text(<<"[", "1", "}">>), Text(<<"1">>), Text(<<>>), Text(<<"x">>),
   Text(<<" ", "x", " ">>), Text(<<"[">>), Text(<<Quoted>>),
   Node("number", <<"1">>, <<>>), Node("boolean", <<"true">>, <<>>),
   Node("object", <<>>, <<>>), Node("array", <<>>, <<Node("number", <<"1">>, <<>>)>>)}
ConfigEntries ==
  {<<>>}
    \cup {<<Json("a", v)>> : v \in ConfigValues}
    \cup {<<Json("a", Text(<<"[", "x", "]">>)), Json(k, Text(<<"[", "1", "]">>))>> :
            k \in {"a", "b"}}
Listed200 == {Answer(200, {}, entries) : entries \in ConfigEntries}

\* the responses of the service behind the proxy
UpstreamHeaders ==
  {hs \cup ct : hs \in SUBSET {<<"content-length", "12">>, <<"x-request-id", "r1">>},
                ct \in {{}, {<<"content-type", "text/plain">>},
                        {<<"content-type", "application/json; charset=utf-8">>}}}
Upstream ==
  {Answer(status, headers, Payload("bytes", json)) :
     status \in {200, 404}, headers \in UpstreamHeaders, json \in BOOLEAN}
Rejections == {Rejection("TypeError", "fetch failed")}

ApiModelNames == {"gpt-4", "o1"}

NextApi ==
  \/ \E route \in DOMAIN Routes, method \in Methods : MethodNotAllowed(route, method)
  \/ \E method \in Methods, dir \in ToolDirs : ToolsReq(method, dir)
  \/ \E method \in Methods, readable \in BOOLEAN : LogsReq(method, readable)
  \/ \E method \in Methods, items \in {NoValue, Value("object", "x")},
        outcome \in Fetched : BulkSet(method, items, outcome)
  \/ \E method \in Methods, outcome \in Listed200 : ConfigList(method, outcome)
  \/ \E outcome \in Failures : ConfigList("GET", outcome)
  \/ \E method \in Methods, outcome \in Upstream : Proxy(method, outcome)
  \/ \E method \in Methods, outcome \in Rejections : Proxy(method, outcome)
  \/ \E task_name \in TaskNames : PostTask(task_name, "p1")
  \/ \E id \in {NoId, 1}, name \in ApiModelNames : PostModel(id, 1, name, Undef, 0)

SpecApi == Init /\ [][NextApi]_vars

\* the settings page of one scope: loads, edits, saves and resets
CfgValues == {"a", "b", "c"}
Replies ==
  {Reply(TRUE, v) : v \in CfgValues}
    \cup {Reply(FALSE, "Failed to save config"), Thrown("Failed to fetch")}

NextEditor ==
  \/ FetchCfg
  \/ \E outcome \in Replies : FetchCfgSettle(outcome)
  \/ \E val \in CfgValues : OnChangeField(val)
  \/ Save
  \/ \E outcome \in Replies : SaveSettle(outcome)
  \/ Reset

SpecEditor == Init /\ [][NextEditor]_vars

\* two import requests for the template "good" and their interleavings
NextTwo ==
  \/ ImportBegin("good")
  \/ WipeProvider \/ WipeListModels \/ WipeModel \/ WipeListAgents \/ WipeAgent
  \/ WipeListTasks \/ WipeTask
  \/ LoadProvider \/ BuildProvMap \/ LoadModel \/ BuildModelMap
  \/ LoadAgent \/ LoadTask
  \/ ImportRespond
  \/ Yield

SpecTwo == Init /\ [][NextTwo]_vars

\* two callers of setAgentDetails, each with one record of its own
SetterInputs ==
  UNION {{AgentArgs(role, "d1", Arr(<<"read_file">>), "dev", "usr", 1, "high", "required"),
          AgentArgs(role, "d2", NotArray, Undef, Undef, NoId, Undef, Undef),
          AgentArgs(role, Undef, NotArray, Undef, Undef, NoId, Undef, Undef)} :
           role \in {"coder", "tester", ""}}

NextSet ==
  \/ \E c \in Callers, a \in SetterInputs : SetAgentSelect(c, a)
  \/ \E c \in Callers : SetAgentWrite(c)

SpecSet == Init /\ [][NextSet]_vars

\* a database the modules find when they load: none, or a file of an earlier
\* version whose agent_roles table lacks some of the later columns
Databases ==
  {NoDatabase} \cup
  {[exists |-> TRUE, loaded |-> {},
    cols |-> [t \in SchemaTables |-> IF t = "agent_roles" THEN AgentKeyCols \cup fixes ELSE {}]] :
     fixes \in SUBSET columnFixes}

InitSchema ==
  /\ providers = {} /\ models = {} /\ agents = {} /\ tasks = {}
  /\ seq = [t \in Tables |-> 0]
  /\ files = NoFolder /\ imp = Idle /\ resp = NoResp /\ calls = 0
  /\ editor = Mounted /\ parked = Idle
  /\ setters = [c \in Callers |-> NotCalled]
  /\ schema \in Databases
  /\ slice = initialState

NextSchema ==
  \/ AgentManagerLoad
  \/ ModelManagerLoad
  \/ ProviderManagerLoad
  \/ TasksLoad

SpecSchema == InitSchema /\ [][NextSchema]_vars

NextTemplates ==
  \/ MountTemplates
  \/ handleExport
  \/ handleImport
  \/ \E thunk \in Thunks : Fulfilled(thunk)
  \/ \E thunk \in Thunks : Rejected(thunk)

SpecTemplates == Init /\ [][NextTemplates]_vars

(***************************************************************************)
(* Properties.                                                             *)
(***************************************************************************)
\* lib/agent_manager.js getAllowedTools: the parsed list, [] when unparsable
getAllowedTools(A, agent_role) ==
  IF \E r \in A : r.agent_role = agent_role /\ JSONisArray(r.allowed_tools)
  THEN JSONparse((CHOOSE r \in A : r.agent_role = agent_role).allowed_tools)
  ELSE <<>>

\* the allowed_tools the GET handler returns for a stored row
GetAllowedTools(row) == ensureDefaultTool(parseTools(row.allowed_tools))

\* C1: every stored agent_roles row holds a JSON list containing the sentinel
\* tool, and so does every list the read paths (GET handler, getAllowedTools,
\* export) return for it.
C1_SentinelAlways ==
  \A r \in agents :
    /\ JSONisArray(r.allowed_tools)
    /\ Includes(JSONparse(r.allowed_tools), DEFAULT_TOOL)
    /\ Includes(GetAllowedTools(r), DEFAULT_TOOL)
    /\ Includes(getAllowedTools(agents, r.agent_role), DEFAULT_TOOL)

\* a row written from a list without the sentinel, and one written by an import
C1_Witness ==
  /\ \E r \in agents : JSONparse(r.allowed_tools) = <<"read_file", DEFAULT_TOOL>>
  /\ imp.pc = "done"

\* the mappings of a YAML file, order ignored
AsSet(list) == {list[i] : i \in 1..Len(list)}

\* the store reproduces the folder: exporting it again gives the same mappings
Reproduces(folder) ==
  LET now == exportTemplate(providers, models, agents, tasks)
  IN  /\ AsSet(now.providers) = AsSet(folder.providers)
      /\ AsSet(now.models) = AsSet(folder.models)
      /\ AsSet(now.agents) = AsSet(folder.agents)
      /\ AsSet(now.tasks) = AsSet(folder.tasks)

\* C2: an import of the exported folder always completes and leaves a store
\* with the same providers, models, agent roles and tasks (by natural key and
\* field values) as the store that was exported.
C2_RoundTrip ==
  (imp.name = "default" /\ imp.pc \in {"done", "failed"})
    => (imp.pc = "done" /\ Reproduces(files))

\* the entry the import loop is at
Entry == imp.yaml[imp.i]

\* the models entry at hand names a provider the provider map does not have
UnknownProvider ==
  /\ imp.pc = "loadM"
  /\ YamlGet(Entry, "provider_name", Undef) \notin DOMAIN imp.provMap

\* C3: a Model entry with an unknown provider_name makes the import fail at
\* that entry: nothing is upserted for it or for any entry behind it, Agents
\* and Tasks are not loaded, and the handler answers 500.
C3_UnknownProviderAborts ==
  /\ [][UnknownProvider =>
          /\ imp'.pc = "failed" /\ imp'.i = imp.i
          /\ imp'.err = "provider not found"
          /\ models' = models /\ agents' = agents /\ tasks' = tasks]_vars
  /\ [][imp.pc = "failed" =>
          /\ resp'.status = 500 /\ imp'.pc = "idle"
          /\ UNCHANGED <<providers, models, agents, tasks>>]_vars
  /\ []((imp.pc = "failed" /\ imp.err = "provider not found") =>
          /\ Cardinality(models) < imp.i
          /\ agents = {} /\ tasks = {})

\* the import of bad_model stopped at its first entry, the valid second one unread
C3_Witness ==
  /\ imp.pc = "failed" /\ imp.err = "provider not found"
  /\ imp.i = 1 /\ Len(imp.yaml) = 2
  /\ YamlGet(imp.yaml[2], "provider_name", Undef) \in DOMAIN imp.provMap
  /\ models = {}

\* the agents entry at hand names a model the model map does not have
UnresolvedAgent(e) ==
  /\ Truthy(YamlGet(e, "agent_role", Undef))
  /\ Truthy(YamlGet(e, "provider_name", Undef))
  /\ Truthy(YamlGet(e, "model_name", Undef))
  /\ <<YamlGet(e, "provider_name", Undef), YamlGet(e, "model_name", Undef)>>
       \notin DOMAIN imp.modelMap

\* every entry of the file has its row, looked up by the natural key
Loaded(list, key, rows) ==
  \A i \in 1..Len(list) : \E r \in rows : r[key] = YamlGet(list[i], key, Undef)

\* C4: an Agent entry whose model does not resolve is upserted with a null
\* model_id and the import goes on: it never fails for that reason, and when
\* it is done every agent and every task of the template has its row.
C4_UnresolvedAgentStored ==
  /\ [][(imp.pc = "loadA" /\ UnresolvedAgent(Entry)) =>
          /\ imp'.pc # "failed"
          /\ \E r \in agents' :
               /\ r.agent_role = YamlGet(Entry, "agent_role", Undef)
               /\ r.model_id = NoId]_vars
  /\ [](imp.pc = "done" =>
          /\ Loaded(loadYAML(imp.name, "agents"), "agent_role", agents)
          /\ Loaded(loadYAML(imp.name, "tasks"), "task_name", tasks))

\* bad_agent imported to the end: coder without a model, reviewer with one
C4_Witness ==
  /\ imp.pc = "done" /\ imp.name = "bad_agent"
  /\ \E r \in agents : r.agent_role = "coder" /\ r.model_id = NoId
  /\ \E r \in agents : r.agent_role = "reviewer" /\ r.model_id # NoId
  /\ tasks # {}

\* the rowids in the four tables
StoreIds ==
  [providers |-> RowIds(providers), models |-> RowIds(models),
   agents |-> RowIds(agents), tasks |-> RowIds(tasks)]

\* every record of the four files of the template is in the store, with the
\* values the file gives
FullyLoaded ==
  LET ps == loadYAML(imp.name, "providers")
      ms == loadYAML(imp.name, "models")
      as == loadYAML(imp.name, "agents")
      ts == loadYAML(imp.name, "tasks")
  IN  /\ \A i \in 1..Len(ps) : \E r \in providers :
           /\ r.provider_name = YamlGet(ps[i], "provider_name", Undef)
           /\ r.display_name = safeDisplayName(YamlGet(ps[i], "display_name", Undef),
                                               r.provider_name)
      /\ \A i \in 1..Len(ms) : \E r \in models :
           /\ r.model_name = YamlGet(ms[i], "model_name", Undef)
           /\ JoinProvider(providers, r.provider_id).provider_name
                = YamlGet(ms[i], "provider_name", Undef)
           /\ r.supports_reasoning = YamlGet(ms[i], "supports_reasoning", 1)
      /\ \A i \in 1..Len(as) : \E r \in agents :
           /\ r.agent_role = YamlGet(as[i], "agent_role", Undef)
           /\ r.agent_description = YamlGet(as[i], "agent_description", "")
      /\ \A i \in 1..Len(ts) : \E r \in tasks :
           /\ r.task_name = YamlGet(ts[i], "task_name", Undef)
           /\ r.task_prompt = YamlGet(ts[i], "task_prompt", "")

\* the entries in front of the one the import failed at have their rows, and
\* so have all entries of the files loaded before
Committed ==
  LET prefix == SubSeq(imp.yaml, 1, imp.i - 1)
      ps == loadYAML(imp.name, "providers")
      ms == loadYAML(imp.name, "models")
      as == loadYAML(imp.name, "agents")
  IN  /\ imp.at = "loadP" => Loaded(prefix, "provider_name", providers)
      /\ imp.at = "loadM" => /\ Loaded(ps, "provider_name", providers)
                             /\ Loaded(prefix, "model_name", models)
      /\ imp.at = "loadA" => /\ Loaded(ps, "provider_name", providers)
                             /\ Loaded(ms, "model_name", models)
                             /\ Loaded(prefix, "agent_role", agents)
      /\ imp.at = "loadT" => /\ Loaded(ps, "provider_name", providers)
                             /\ Loaded(ms, "model_name", models)
                             /\ Loaded(as, "agent_role", agents)
                             /\ Loaded(prefix, "task_name", tasks)

Listed(key) ==
  IF resp.body # <<>> /\ resp.body[1].key = key THEN resp.body[1].value ELSE <<>>

\* C6: at every moment of an import in flight each list request can be
\* served at once, and its response carries the table as the import has left
\* it so far (no snapshot of the pre-import store, no wait for the final one).
C6_ReadsSeeImportInFlight ==
  imp.pc # "idle" =>
    /\ ENABLED (GetProviders /\ resp' = Listing("providers", listProviders(providers)))
    /\ ENABLED (GetModels(FALSE) /\ resp' = Listing("models", listModels(models)))
    /\ ENABLED (GetModels(TRUE) /\ {m.id : m \in AsSet(resp'.body[1].value)} = RowIds(models))
    /\ ENABLED (GetAgentRoles /\ {e.id : e \in AsSet(resp'.body[1].value)} = RowIds(agents))
    /\ ENABLED (GetTasks /\ resp' = Listing("tasks", getAllTasks(tasks)))

\* an import that replaced one agent role by two has ended, and the list
\* request answered meanwhile saw one of the two new roles only
C6_Witness ==
  /\ imp.pc = "done"
  /\ imp.pre.agents # {}
  /\ Cardinality(agents) = 2
  /\ resp.body # <<>> /\ resp.body[1].key = "agentTypes"
  /\ Len(Listed("agentTypes")) = 1
  /\ Listed("agentTypes")[1].id \in RowIds(agents) \ imp.pre.agents

\* the rows a createOrUpdate call with this id and natural key addresses
ProviderHit(id, provider_name) ==
  IF id # NoId THEN {p \in providers : p.id = id}
  ELSE {p \in providers : p.provider_name = provider_name}

ModelHit(id, provider_id, model_name) ==
  IF id # NoId THEN {m \in models : m.id = id}
  ELSE {m \in models : m.provider_id = provider_id /\ m.model_name = model_name}

\* C7: createOrUpdate of a Provider or a Model succeeds on every input; it
\* rewrites the row its id, or without id its natural key, matches and keeps
\* the number of rows, and inserts exactly one row when nothing matches.
C7_UpsertEveryInput ==
  /\ \A id \in 0..MaxId, name \in CrudProviderNames :
       LET r == createOrUpdateProvider(providers, seq.providers, id, name, Undef, "x")
           hit == ProviderHit(id, name)
       IN  /\ ~r.err
           /\ IF hit # {}
              THEN /\ Cardinality(r.rows) = Cardinality(providers)
                   /\ \E p \in r.rows : /\ p.id \in RowIds(hit)
                                        /\ p.provider_name = name
                                        /\ p.extra_info = "x"
              ELSE Cardinality(r.rows) = Cardinality(providers) + 1
  /\ \A id \in 0..MaxId, pid \in {1, 2}, name \in ModelNames :
       LET r == createOrUpdateModel(models, seq.models, id, pid, name, Undef, "x", SrUndef)
           hit == ModelHit(id, pid, name)
       IN  /\ ~r.err
           /\ IF hit # {}
              THEN /\ Cardinality(r.rows) = Cardinality(models)
                   /\ \E m \in r.rows : /\ m.id \in RowIds(hit)
                                        /\ m.provider_id = pid
                                        /\ m.model_name = name
                                        /\ m.extra_info = "x"
              ELSE Cardinality(r.rows) = Cardinality(models) + 1

\* C8: for each of the four entities, the create/upsert call made twice in a
\* row with the same natural key and values succeeds both times, and the
\* second call leaves the table as the first one left it, with one row for
\* the key.
C8_CreateTwice ==
  /\ \A name \in CrudProviderNames :
       LET r1 == createOrUpdateProvider(providers, seq.providers, NoId, name, Undef, "x")
           r2 == createOrUpdateProvider(r1.rows, r1.n, NoId, name, Undef, "x")
       IN  /\ ~r1.err /\ ~r2.err /\ r2.rows = r1.rows
           /\ Cardinality({p \in r2.rows : p.provider_name = name}) = 1
  /\ \A pid \in {1, 2}, name \in ModelNames :
       LET r1 == createOrUpdateModel(models, seq.models, NoId, pid, name, Undef, "x", SrUndef)
           r2 == createOrUpdateModel(r1.rows, r1.n, NoId, pid, name, Undef, "x", SrUndef)
       IN  /\ ~r1.err /\ ~r2.err /\ r2.rows = r1.rows
           /\ Cardinality({m \in r2.rows : m.provider_id = pid /\ m.model_name = name}) = 1
  /\ \A a \in CrudAgentInputs :
       LET r1 == setAgentDetails(agents, seq.agents, a)
           r2 == setAgentDetails(r1.rows, r1.n, a)
       IN  /\ ~r1.err /\ ~r2.err /\ r2.rows = r1.rows
           /\ Cardinality({g \in r2.rows : g.agent_role = a.agent_role}) = 1
  /\ \A name \in CrudTaskNames :
       LET r1 == createTask(tasks, seq.tasks, name, "p1")
           r2 == createTask(r1.rows, r1.n, name, "p1")
       IN  /\ ~r1.err /\ ~r2.err /\ r2.rows = r1.rows
           /\ Cardinality({t \in r2.rows : t.task_name = name}) = 1

\* the natural key an entry of a template file carries
KeyOf(file, e) ==
  IF file = "providers" THEN <<YamlGet(e, "provider_name", Undef)>>
  ELSE IF file = "models"
       THEN <<YamlGet(e, "provider_name", Undef), YamlGet(e, "model_name", Undef)>>
  ELSE IF file = "agents" THEN <<YamlGet(e, "agent_role", Undef)>>
  ELSE <<YamlGet(e, "task_name", Undef)>>

\* two records of the file carry the same natural key
HasDuplicate(name, file) ==
  LET list == loadYAML(name, file)
  IN  \E i, j \in 1..Len(list) :
        i < j /\ KeyOf(file, list[i]) = KeyOf(file, list[j])

\* the last record of the list with the key of its i-th record
LastOf(file, list, i) ==
  LET same == {j \in 1..Len(list) : KeyOf(file, list[j]) = KeyOf(file, list[i])}
  IN  list[CHOOSE j \in same : \A k \in same : k <= j]

\* the rows of the store for the key of a record, with the record's values
RowsFor(file, e, exact) ==
  IF file = "providers"
  THEN {r \in providers :
          /\ r.provider_name = YamlGet(e, "provider_name", Undef)
          /\ exact => r.display_name = YamlGet(e, "display_name", Undef)}
  ELSE IF file = "models"
  THEN {r \in models :
          /\ r.model_name = YamlGet(e, "model_name", Undef)
          /\ JoinProvider(providers, r.provider_id).provider_name
               = YamlGet(e, "provider_name", Undef)
          /\ exact => r.supports_reasoning = YamlGet(e, "supports_reasoning", 1)}
  ELSE IF file = "agents"
  THEN {r \in agents :
          /\ r.agent_role = YamlGet(e, "agent_role", Undef)
          /\ exact => r.agent_description = YamlGet(e, "agent_description", "")}
  ELSE {r \in tasks :
          /\ r.task_name = YamlGet(e, "task_name", Undef)
          /\ exact => r.task_prompt = YamlGet(e, "task_prompt", "")}

\* C9: the import of a template with two records of one natural key in a
\* file completes; the store then holds one row per key of the file, with
\* the values of the last record carrying the key.
C9_DuplicateKeysLastWins ==
  (imp.pc \in {"done", "failed"} /\ \E t \in Tables : HasDuplicate(imp.name, t))
    => /\ imp.pc = "done"
       /\ \A t \in Tables :
            LET list == loadYAML(imp.name, t)
            IN  \A i \in 1..Len(list) :
                  /\ Cardinality(RowsFor(t, list[i], FALSE)) = 1
                  /\ RowsFor(t, LastOf(t, list, i), TRUE) # {}

\* C10: a step that deletes provider rows changes no models row, so the list
\* of Models still returns the rows carrying the deleted provider_id; a step
\* that deletes model rows changes no agent_roles row.
C10_NoCascade ==
  /\ [][RowIds(providers') # RowIds(providers) /\ RowIds(providers') \subseteq RowIds(providers) =>
          /\ models' = models /\ agents' = agents
          /\ listModels(models') = listModels(models)
          /\ \A m \in models :
               m.provider_id \in RowIds(providers) \ RowIds(providers') =>
                 \E i \in 1..Len(listModels(models')) :
                   listModels(models')[i] = m]_vars
  /\ [][RowIds(models') # RowIds(models) /\ RowIds(models') \subseteq RowIds(models) =>
          agents' = agents]_vars

\* a wipe has deleted the providers and the first of two models: the other
\* model still carries the id of a deleted provider, and an agent role still
\* carries the id of the deleted model
C10_Witness ==
  /\ imp.pc = "delM"
  /\ providers = {} /\ imp.pre.providers # {}
  /\ \E i \in 1..Len(listModels(models)) :
       listModels(models)[i].provider_id \in imp.pre.providers
  /\ \E a \in agents : a.model_id \in imp.pre.models \ RowIds(models)

\* the model an agent role points at is stored with supports_reasoning false
NoReasoning(model_id) ==
  \E m \in models : m.id = model_id /\ m.supports_reasoning = 0

\* a step that answers a GET /agent-roles request
AgentRead ==
  /\ imp' = imp
  /\ resp'.body # <<>>
  /\ resp'.body[1].key \in {"agent", "agentTypes"}

\* the agents a GET /agent-roles response carries
AgentsIn(r) ==
  IF r.body = <<>> THEN {}
  ELSE IF r.body[1].key = "agent" THEN {r.body[1].value}
  ELSE IF r.body[1].key = "agentTypes" THEN AsSet(r.body[1].value)
  ELSE {}

\* C11: a GET /agent-roles response, single or list, carries an empty
\* reasoning_level for every role whose model is stored with
\* supports_reasoning false, whatever level the row holds, and the request
\* leaves the stored rows as they are.
C11_ReasoningBlankedOnRead ==
  [][AgentRead =>
       /\ agents' = agents
       /\ \A e \in AgentsIn(resp') :
            NoReasoning(e.model_id) => e.reasoning_level = ""]_vars

\* the single-role response for coder carries no level while the row holds
\* "medium" and points at a model without reasoning
C11_Witness ==
  /\ resp.body # <<>> /\ resp.body[1].key = "agent"
  /\ resp.body[1].value.reasoning_level = ""
  /\ "id" \in DOMAIN resp.body[1].value
  /\ \E r \in agents :
       /\ r.agent_role = resp.body[1].value.agent_role
       /\ r.id = resp.body[1].value.id
       /\ r.reasoning_level = "medium"
       /\ NoReasoning(r.model_id)

\* the placeholder agent of a role: the sentinel as its only tool, no model,
\* the given tool_choice, every other field the empty string
Placeholder(agent_role, tool_choice) ==
  [agent_role |-> agent_role,
   agent_description |-> "",
   allowed_tools |-> <<DEFAULT_TOOL>>,
   default_developer_prompt |-> "",
   default_user_prompt |-> "",
   model_id |-> NoId,
   model_name |-> "",
   reasoning_level |-> "",
   tool_choice |-> tool_choice]

\* the single-role GET for this role answers 200 with this agent and writes
\* no row (the handler has one outcome, so being able to answer so is
\* answering so)
AnswersWith(role, agent) ==
  ENABLED (/\ GetAgentRole(role)
           /\ resp' = Listing("agent", agent)
           /\ agents' = agents /\ seq' = seq)

NoDisplayName == {Undef, "", " "}
AnyProviderName == CrudProviderNames \cup {""}

\* the call succeeded and every row it wrote has display_name = provider_name
StoresNameAsDisplay(id, name, d) ==
  LET r == createOrUpdateProvider(providers, seq.providers, id, name, d, Undef)
  IN  ~r.err =>
        /\ \A p \in r.rows \ providers : p.display_name = name
        /\ (id = NoId \/ ProviderHit(id, name) # {}) =>
             \E p \in r.rows : p.provider_name = name /\ p.display_name = name

\* C13 as stated: without an explicit display name createOrUpdateProvider
\* stores display_name = provider_name on the insert and the update paths,
\* and no stored provider has an empty display_name.
C13_DisplayNameNeverEmpty ==
  /\ \A id \in 0..MaxId, name \in AnyProviderName, d \in NoDisplayName :
       /\ StoresNameAsDisplay(id, name, d)
       /\ \A p \in createOrUpdateProvider(providers, seq.providers, id, name, d, Undef).rows :
            p.display_name # ""
  /\ \A p \in providers : p.display_name # ""

\* C13, amended: without an explicit display name createOrUpdateProvider
\* stores display_name = provider_name on the insert and the update paths;
\* a provider has an empty display_name only when its provider_name is empty.
C13_DisplayNameDefault ==
  /\ \A id \in 0..MaxId, name \in AnyProviderName, d \in NoDisplayName :
       /\ StoresNameAsDisplay(id, name, d)
       /\ \A p \in createOrUpdateProvider(providers, seq.providers, id, name, d, Undef).rows :
            p.display_name = "" => p.provider_name = ""
  /\ \A p \in providers : p.display_name = "" => p.provider_name = ""

\* two providers stored by requests that carried no display name
C13_Witness ==
  /\ resp = Status(200)
  /\ Cardinality(providers) = 2
  /\ \A p \in providers : p.display_name = p.provider_name

\* the request can only be answered with this status and without any change
\* to the four tables (each handler has one outcome for a request)
Refused(request, code) ==
  ENABLED (/\ request
           /\ resp'.status = code
           /\ UNCHANGED <<providers, models, agents, tasks, seq, files, calls>>)

\* C14: a request that names an unknown id or key is answered 404 and
\* changes nothing: GET of a model or a task, update and DELETE of a
\* provider, a model or a task.
C14_UnknownIs404 ==
  /\ \A id \in 1..MaxId \ RowIds(providers) :
       /\ Refused(DeleteProviderReq(id), 404)
       /\ \A name \in CrudProviderNames : Refused(PostProvider(id, name, Undef), 404)
  /\ \A id \in 1..MaxId \ RowIds(models) :
       /\ Refused(GetModel(id), 404)
       /\ Refused(DeleteModelReq(id), 404)
       /\ \A name \in ModelNames : Refused(PostModel(id, 1, name, Undef, SrUndef), 404)
  /\ \A id \in 1..MaxId \ RowIds(tasks) :
       /\ Refused(DeleteTaskReq(id), 404)
       /\ \A name \in CrudTaskNames : Refused(PutTask(id, name, "p1"), 404)
  /\ \A name \in CrudTaskNames :
       getTask(tasks, name) = {} => Refused(GetTask(name), 404)

\* the request can only be answered 400 with a JSON error message, without
\* a write to the store or the folder and without a call upstream
Refused400(request) ==
  ENABLED (/\ request
           /\ resp'.status = 400
           /\ resp'.body # <<>> /\ resp'.body[1].key = "error"
           /\ UNCHANGED <<providers, models, agents, tasks, seq, files, calls>>)

Refused405(request, methods) ==
  ENABLED (/\ request
           /\ resp'.status = 405
           /\ \E h \in resp'.headers : h[1] = "Allow" /\ AsSet(h[2]) = methods
           /\ UNCHANGED <<providers, models, agents, tasks, seq, files, calls>>)

\* C16: every route answers a method it does not support with 405 and an
\* Allow header listing exactly the methods it supports, and touches nothing.
\* (The tools and the logs routes serve a read and support GET.)
C16_OtherMethodIs405 ==
  /\ \A route \in DOMAIN Routes :
       \A method \in Methods \ Served[route] :
         Refused405(MethodNotAllowed(route, method), Served[route])
  /\ \A method \in Methods \ {"POST"} :
       Refused405(BulkSet(method, Value("object", "x"), Answer(200, {}, "")), {"POST"})
  /\ \A method \in Methods \ {"GET"} :
       /\ \A dir \in ToolDirs : Refused405(ToolsReq(method, dir), {"GET"})
       /\ \A readable \in BOOLEAN : Refused405(LogsReq(method, readable), {"GET"})

\* the message is in the body: as the error text, or within the detail
Carries(body, message) ==
  \E i \in DOMAIN body :
    \/ body[i].key = "error" /\ body[i].value = message
    \/ body[i].key = "detail" /\ message \in AsSet(body[i].value)

\* the message of the error a failed call to the config service ends in
messageOf(outcome, fallback) ==
  IF outcome.kind = "rejection" THEN outcome.message
  ELSE IF outcome.text # "" THEN outcome.text ELSE fallback

\* the store requests of SpecApi whose statement raises in this state
TaskRaises(task_name) == createTask(tasks, seq.tasks, task_name, "p1").err
ModelRaises(id, name) ==
  createOrUpdateModel(models, seq.models, id, 1, name, Undef, Undef, 0).err

C18_ProxyFailureIs500 ==
  \A method \in Methods, outcome \in Rejections :
    calls < MaxCalls =>
      ~ENABLED (/\ Proxy(method, outcome)
                /\ ~(/\ resp'.status = 500
                     /\ \E i \in DOMAIN resp'.body : resp'.body[i].value = outcome.message
                     /\ calls' = calls + 1))

\* an upstream response whose body is what its content type says
WellFormed(outcome) ==
  contentType(outcome.headers) \in JsonTypes => outcome.text.json

LooksLikeJson(value) ==
  /\ value.type = "string"
  /\ LET t == trim(value.text)
     IN  /\ t # <<>>
         /\ \/ Head(t) = "[" /\ t[Len(t)] = "]"
            \/ Head(t) = "{" /\ t[Len(t)] = "}"

\* GET /config/list answers 200 and gives the entry this value
ListsAs(value, v) ==
  listed(Answer(200, {}, <<Json("a", value)>>))
    = [status |-> 200, headers |-> {}, body |-> <<Json("a", v)>>]

\* C20: GET /config/list answers 200 and returns a string that looks like a
\* JSON array or object but does not parse as the original string, one that
\* parses as the structured value, and every other value unchanged.
C20_ConfigListValues ==
  \A value \in ConfigValues :
    calls < MaxCalls =>
      IF LooksLikeJson(value)
      THEN LET r == ParseText(trim(value.text))
           IN  IF r.ok THEN r.v.type \in {"array", "object"} /\ ListsAs(value, r.v)
               ELSE ListsAs(value, value)
      ELSE ListsAs(value, value)

\* the text " [1,]" has been listed as it came, blank included
C20_Witness ==
  /\ calls > 0
  /\ resp = [status |-> 200, headers |-> {},
             body |-> <<Json("a", Text(<<" ", "[", "1", ",", "]">>))>>]

\* a step in which a save in flight ends, and one in which it ends in failure
\* (save clears the error text, and a load only sets "Load failed: ")
SaveEnds == editor.sent # NotSent /\ editor'.sent = NotSent
SaveFails == SaveEnds /\ editor'.error # <<>> /\ editor'.error[1] = "Save failed: "

\* C21 as stated: a save that fails leaves the edited values and the baseline
\* as they were, sets the error text and sends nothing more; a save that
\* succeeds leaves the editor not dirty, the baseline being the edited values.
C21_FailedSaveKeepsView ==
  [][SaveEnds =>
       IF SaveFails
       THEN /\ editor'.cfg = editor.cfg /\ editor'.orig = editor.orig
            /\ editor'.fetching = editor.fetching
       ELSE editor'.orig = editor'.cfg]_vars

\* C21, amended: a save that fails leaves the edited values and the baseline
\* as they were, sets the error text and sends nothing more; a save that
\* succeeds sets the baseline to the values it sent, which are the edited
\* values unless they were edited or reloaded while the save was in flight.
\* No other step but a load's end changes the baseline.
C21_FailedSaveKeepsBaseline ==
  /\ [][SaveEnds =>
          IF SaveFails
          THEN /\ editor'.cfg = editor.cfg /\ editor'.orig = editor.orig
               /\ editor'.fetching = editor.fetching
          ELSE /\ editor'.orig = editor.sent /\ editor'.cfg = editor.cfg
               /\ editor.cfg = editor.sent => ~dirty']_vars
  /\ [][editor'.orig # editor.orig =>
          \/ SaveEnds /\ ~SaveFails
          \/ editor.fetching /\ ~editor'.fetching]_vars

\* a save has failed after the values were edited on a loaded baseline
C21_Witness ==
  /\ editor.error # <<>> /\ editor.error[1] = "Save failed: "
  /\ editor.sent = NotSent /\ ~editor.saving
  /\ dirty

\* the steps of the wipe phase, and the names a template file gives a key
WipePcs == {"delP", "listM", "delM", "listA", "delA", "listT", "delT"}
NamesIn(file, key) ==
  LET y == loadYAML(imp.name, file)
  IN  {YamlGet(y[i], key, Undef) : i \in 1..Len(y)}

\* C22: an import with wipe=true and no concurrent writer has deleted every
\* row of the four tables when it leaves the wipe phase, before the first
\* record of the template is upserted; after a successful import the store
\* holds only rows that come from the template files, none from before.
C22_WipeBeforeLoad ==
  /\ [][((imp.pc \in WipePcs \/ imp.pc = "idle") /\ imp'.pc \notin WipePcs \cup {"idle"}) =>
          /\ providers' = {} /\ models' = {} /\ agents' = {} /\ tasks' = {}]_vars
  /\ [](imp.pc = "done" =>
          /\ \A r \in providers : /\ r.provider_name \in NamesIn("providers", "provider_name")
                                  /\ r.id \notin imp.pre.providers
          /\ \A r \in models : /\ r.model_name \in NamesIn("models", "model_name")
                               /\ r.id \notin imp.pre.models
          /\ \A r \in agents : /\ r.agent_role \in NamesIn("agents", "agent_role")
                               /\ r.id \notin imp.pre.agents
          /\ \A r \in tasks : /\ r.task_name \in NamesIn("tasks", "task_name")
                              /\ r.id \notin imp.pre.tasks)

\* an import has ended well on a store that held rows of all four tables
C22_Witness ==
  /\ imp.pc = "done"
  /\ imp.pre.providers # {} /\ imp.pre.models # {}
  /\ imp.pre.agents # {} /\ imp.pre.tasks # {}
  /\ providers # {} /\ models # {} /\ agents # {} /\ tasks # {}

\* the template names this provider for this model, this model for this agent
ModelEntryNames(provider_name, model_name) ==
  LET y == loadYAML(imp.name, "models")
  IN  \E i \in 1..Len(y) : /\ YamlGet(y[i], "provider_name", Undef) = provider_name
                           /\ YamlGet(y[i], "model_name", Undef) = model_name
AgentEntryNames(agent_role, provider_name, model_name) ==
  LET y == loadYAML(imp.name, "agents")
  IN  \E i \in 1..Len(y) : /\ YamlGet(y[i], "agent_role", Undef) = agent_role
                           /\ YamlGet(y[i], "provider_name", Undef) = provider_name
                           /\ YamlGet(y[i], "model_name", Undef) = model_name

HoldsGood ==
  /\ {r.provider_name : r \in providers} = {"openai"} /\ Cardinality(providers) = 1
  /\ {r.model_name : r \in models} = {"gpt-4", "o1"} /\ Cardinality(models) = 2
  /\ \A m \in models : \E p \in providers : p.id = m.provider_id
  /\ {r.agent_role : r \in agents} = {"coder"} /\ Cardinality(agents) = 1
  /\ {r.task_name : r \in tasks} = {"t1"} /\ Cardinality(tasks) = 1

\* C24: however two imports of the same template interleave, once both have
\* finished every Model row references a stored Provider and the store holds
\* exactly the template's rows.
C24_TwoImportsConverge ==
  (imp.pc = "idle" /\ parked.pc = "idle" /\ resp.status # 0) => HoldsGood

\* both calls have ended, and they were for one agent_role
BothEnded ==
  /\ \A c \in Callers : setters[c].pc \in {"done", "failed"}
  /\ setters[1].a.agent_role = setters[2].a.agent_role
  /\ Truthy(setters[1].a.agent_role)

\* C25: two setAgentDetails calls at once for one agent_role that was absent
\* both end without an error, and the table then holds one row for the role,
\* with the values of one of the two calls.
C25_TwoSettersUpsert ==
  BothEnded =>
    /\ \A c \in Callers : setters[c].pc = "done"
    /\ \E c \in Callers : \E id \in 1..2 :
         {r \in agents : r.agent_role = setters[c].a.agent_role} = {AgentRow(id, setters[c].a)}

\* C26: in whatever order the four modules run their load-time schema
\* initialisation, and however often, the schema is then the same and has every
\* column the operations write, models.supports_reasoning among them.
C26_SchemaOrderFree ==
  schema.loaded = Modules =>
    /\ schema.cols = Installed.cols
    /\ ModelWriteColumns \subseteq ColumnNames(schema.cols["models"])

\* the caller's call found a row for its agent_role and has now written
Updates(c) ==
  /\ setters[c].pc = "selected" /\ setters'[c].pc = "done"
  /\ setters[c].existing # NoId

\* the row holds the default of every field the arguments omit
Defaulted(r, a) ==
  /\ a.agent_description = Undef => r.agent_description = ""
  /\ a.default_developer_prompt = Undef => r.default_developer_prompt = ""
  /\ a.default_user_prompt = Undef => r.default_user_prompt = ""
  /\ a.model_id = NoId => r.model_id = NoId
  /\ a.reasoning_level = Undef => r.reasoning_level = "medium"
  /\ a.tool_choice = Undef => r.tool_choice = "auto"
  /\ ~a.allowed_tools.isArray => r.allowed_tools = JSONstringify(<<DEFAULT_TOOL>>)

\* C27: setAgentDetails on an agent_role that exists replaces the record: every
\* omitted field is reset to its default, and the row's id and the number of
\* rows stay as they were.
C27_UpdateReplacesRecord ==
  [][\A c \in Callers : Updates(c) =>
       /\ Cardinality(agents') = Cardinality(agents)
       /\ \E r \in agents' :
            /\ r.agent_role = setters[c].a.agent_role
            /\ r.id = setters[c].existing
            /\ Defaulted(r, setters[c].a)]_vars

\* a record written in full was overwritten by a call that gave only the role
C27_Witness ==
  \E c, d \in Callers :
    /\ setters[c].pc = "done" /\ setters[c].existing # NoId
    /\ setters[c].a.agent_description = Undef
    /\ setters[d].pc = "done" /\ setters[d].existing = NoId
    /\ setters[d].a.agent_description = "d1"
    /\ setters[d].a.agent_role = setters[c].a.agent_role
    /\ \E r \in agents : r.agent_role = setters[c].a.agent_role /\ r.reasoning_level = "medium"

\* the rows of a table
RowsOf(t) ==
  CASE t = "providers" -> providers [] t = "models" -> models
    [] t = "agents" -> agents [] t = "tasks" -> tasks

\* a step gives every new row of every table an id above the table's sequence,
\* which holds the largest id the table ever assigned and never goes down
FreshIds ==
  \A t \in Tables :
    /\ seq'[t] >= seq[t]
    /\ \A r \in RowsOf(t) : r.id <= seq[t]
    /\ \A id \in RowIds(RowsOf(t)') \ RowIds(RowsOf(t)) : id > seq[t] /\ id <= seq'[t]

\* a reference a deletion left dangling stays dangling
StaysDangling ==
  /\ \A m \in models \cap models' :
       (m.provider_id \in 1..seq.providers /\ m.provider_id \notin RowIds(providers))
         => m.provider_id \notin RowIds(providers')
  /\ \A g \in agents \cap agents' :
       (g.model_id \in 1..seq.models /\ g.model_id \notin RowIds(models))
         => g.model_id \notin RowIds(models')

\* C28: ids are never reused: after any inserts and deletes, the wipe of an
\* import among them, a new row's id is greater than every id its table ever
\* assigned, and a provider_id or model_id a deletion left dangling never comes
\* to reference a later row.
C28_IdsNeverReused == [][FreshIds /\ StaysDangling]_vars

\* a provider was deleted and a later one inserted while a model still carries
\* the deleted provider's id
C28_Witness ==
  /\ RowIds(providers) = {2}
  /\ \E m \in models : m.provider_id = 1

\* the handler answers the import of the folder that does not exist
MissingEnds == imp.name = "missing" /\ imp.pc # "idle" /\ imp'.pc = "idle"

\* C29: the import, with wipe, of a template whose folder and files do not exist
\* reads every file as the empty list: the handler answers 200 and all four
\* tables are empty, whatever they held.
C29_MissingTemplateEmpties ==
  [][MissingEnds =>
       /\ imp.pc = "done" /\ resp'.status = 200
       /\ providers' = {} /\ models' = {} /\ agents' = {} /\ tasks' = {}]_vars

\* the import of the missing folder has ended on a store that held rows of all
\* four tables
C29_Witness ==
  /\ imp.name = "missing" /\ imp.pc = "done"
  /\ imp.pre.providers # {} /\ imp.pre.models # {}
  /\ imp.pre.agents # {} /\ imp.pre.tasks # {}
  /\ providers = {} /\ tasks = {}

\* C30: the slice's status is 'importing' for as long as an import request is in
\* flight, whatever the other thunks do meanwhile, so that the Import button is
\* disabled and no second import is in flight with the first.
C30_ImportingWhileInFlight ==
  /\ slice.inflight["importTemplate"] > 0 => slice.status = "importing"
  /\ slice.inflight["importTemplate"] <= 1

====
